---- MODULE Spec2Model ----
(***************************************************************************)
(* cppxgen: the lexer (cppx::Parser), the include-guard synthesiser and    *)
(* the splitter/emitter (GenerateFileCode) of the cppx repository.         *)
(*                                                                         *)
(* A source buffer is a sequence of one-character strings; positions are   *)
(* 1-based, so the C++ pointer  begin + k  is the position  k + 1  and a   *)
(* read at a position past the last byte yields NUL (the terminator the    *)
(* code's  while (c = iterator.Value())  loop stops on).                   *)
(* size_t counters are held as signed representatives of their value       *)
(* modulo 2^64: 0 - 1 is written -1 and stands for 2^64 - 1.               *)
(***************************************************************************)
EXTENDS Integers, Sequences, FiniteSets

VARIABLES
    base_dir,        \* the directory GenerateCode is run on: [status, entries, fails_at]
    files_to_process,\* GenerateCode: files_to_process
    file,            \* GenerateCode: index of the range-for cursor f
    error_code,      \* main: <<what GenerateCode returned>>, <<>> while it runs
    console,         \* what was written to the error and warning streams
    filename,        \* [dir, stem]: path of the .cppx file being processed
    input,           \* Parser::code: the bytes of the file
    pc,              \* position of GenerateFileCode
    iterator,        \* Parser::iterator: [pos, line]
    code_blocks,     \* Parser::code_blocks
    containers,      \* Parser::containers
    next_container,  \* local of Parser::Parser
    last_identifier, \* local of Parser::Parser
    container_name,  \* local of Parser::Parser
    error,           \* the Parser::Error thrown, or NoError
    code_block,      \* GenerateFileCode: index of the emitter's block cursor
    e_containers,    \* GenerateFileCode: containers
    e_next_container,\* GenerateFileCode: next_container
    include_guard,   \* GenerateFileCode: include_guard
    function,        \* function sub-walk: function (accumulated signature)
    function_name,   \* function sub-walk: function_name
    identifier,      \* ProcessContainer: identifier
    buffer,          \* CodeWriter::buffer
    header_file,     \* CodeWriter::header_file: bytes written so far
    cpp_file,        \* CodeWriter::cpp_file: bytes written so far
    code_writer      \* GenerateFileCode: code_writer and its two streams: "none" before
                     \* it is constructed, "open", "closed" after its destructor

lexvars == <<iterator, code_blocks, containers, next_container,
             last_identifier, container_name, error>>
emitvars == <<code_block, e_containers, e_next_container, include_guard,
              function, function_name, identifier, buffer, header_file, cpp_file,
              code_writer>>
runvars == <<base_dir, files_to_process, file, error_code, console>>
vars == <<runvars, filename, input, pc, lexvars, emitvars>>

(***************************************************************************)
(* Characters                                                              *)
(***************************************************************************)
NUL == "NUL"
NL == "\n"
CR == "\r"

Lower == {"a","b","c","d","e","f","g","h","i","j","k","l","m",
          "n","o","p","q","r","s","t","u","v","w","x","y","z"}
Upper == {"A","B","C","D","E","F","G","H","I","J","K","L","M",
          "N","O","P","Q","R","S","T","U","V","W","X","Y","Z"}
Digit == {"0","1","2","3","4","5","6","7","8","9"}
OctDigit == {"0","1","2","3","4","5","6","7"}
HexDigit == Digit \cup {"a","b","c","d","e","f","A","B","C","D","E","F"}

\* isspace() in the "C" locale (\v has no TLA+ spelling and is left out)
isspace(c) == c \in {" ", "\t", NL, CR, "\f"}
\* the regex atom [_a-zA-Z]
IsIdStart(c) == c \in Lower \cup Upper \cup {"_"}
\* the regex atom \w
IsWord(c) == c \in Lower \cup Upper \cup Digit \cup {"_"}
\* the regex atom . (ECMAScript: any character but a line terminator)
IsDot(c) == c /= NUL /\ c /= NL /\ c /= CR

UpperOf == [c \in Lower |->
    CASE c = "a" -> "A" [] c = "b" -> "B" [] c = "c" -> "C" [] c = "d" -> "D"
      [] c = "e" -> "E" [] c = "f" -> "F" [] c = "g" -> "G" [] c = "h" -> "H"
      [] c = "i" -> "I" [] c = "j" -> "J" [] c = "k" -> "K" [] c = "l" -> "L"
      [] c = "m" -> "M" [] c = "n" -> "N" [] c = "o" -> "O" [] c = "p" -> "P"
      [] c = "q" -> "Q" [] c = "r" -> "R" [] c = "s" -> "S" [] c = "t" -> "T"
      [] c = "u" -> "U" [] c = "v" -> "V" [] c = "w" -> "W" [] c = "x" -> "X"
      [] c = "y" -> "Y" [] c = "z" -> "Z"]
toupper(c) == IF c \in Lower THEN UpperOf[c] ELSE c

(***************************************************************************)
(* Parser::Iterator                                                        *)
(***************************************************************************)
At(p) == IF p >= 1 /\ p <= Len(input) THEN input[p] ELSE NUL

Value(it) == At(it.pos)
PreviousValue(it) == IF it.pos = 1 THEN NUL ELSE At(it.pos - 1)
Peek(it) == IF At(it.pos) /= NUL THEN At(it.pos + 1) ELSE NUL

MoveNext(it) ==
    IF At(it.pos) = NUL THEN it
    ELSE [pos |-> it.pos + 1,
          line |-> IF At(it.pos) = NL THEN it.line + 1 ELSE it.line]

\* if (*current-- == '\n') line--;  tests the byte the cursor is ON, then steps back
MovePrevious(it) ==
    IF it.pos = 1 THEN it
    ELSE [pos |-> it.pos - 1,
          line |-> IF At(it.pos) = NL THEN it.line - 1 ELSE it.line]

RECURSIVE Advance(_, _)
Advance(it, length) == IF length = 0 THEN it ELSE Advance(MoveNext(it), length - 1)

RECURSIVE MoveBack(_, _)
MoveBack(it, lenght) == IF lenght = 0 THEN it ELSE MoveBack(MovePrevious(it), lenght - 1)

\* AdvanceUntilCharIsFound: the first position >= it.pos holding one of chars,
\* or the end of the buffer when there is none
RECURSIVE FindChar(_, _)
FindChar(p, chars) ==
    IF At(p) = NUL \/ At(p) \in chars THEN p ELSE FindChar(p + 1, chars)

AdvanceUntilCharIsFound(it, chars) == Advance(it, FindChar(it.pos, chars) - it.pos)

\* does the text s start at position p
StartsWith(p, s) == \A k \in 1..Len(s) : At(p + k - 1) = s[k]

TextOf(b, e) == [k \in 1..(e - b + 1) |-> input[b + k - 1]]

(***************************************************************************)
(* Parser::Error                                                           *)
(***************************************************************************)
NUMBER_CHARS_CODE_CONTAINING_ERROR == 28

NoError == [what |-> "", line |-> 0, pos |-> 0]

\* Error(error_message, iterator): the message, iterator.Line() and the place
\* SetCodeContainingError starts to copy from
Error(error_message, it) == [what |-> error_message, line |-> it.line, pos |-> it.pos]

RECURSIVE ExcerptLen(_, _)
ExcerptLen(p, i) ==
    IF i >= NUMBER_CHARS_CODE_CONTAINING_ERROR \/ At(p) = NUL \/ At(p) = NL THEN i
    ELSE ExcerptLen(p + 1, i + 1)

\* Error::code_containing_error
CodeContainingError(e) == TextOf(e.pos, e.pos + ExcerptLen(e.pos, 0) - 1)

(***************************************************************************)
(* Regular expressions of the lexer, each by what it matches               *)
(***************************************************************************)
\* the first position >= p where s starts, crossing only characters that . matches
RECURSIVE FindOnLine(_, _)
FindOnLine(p, s) ==
    IF StartsWith(p, s) THEN p
    ELSE IF IsDot(At(p)) THEN FindOnLine(p + 1, s) ELSE 0

\* the first position >= p where s starts, crossing any character ([\s\S])
RECURSIVE FindAny(_, _)
FindAny(p, s) ==
    IF At(p) = NUL THEN 0
    ELSE IF StartsWith(p, s) THEN p ELSE FindAny(p + 1, s)

\* .* : the first position >= p that . does not match
RECURSIVE DotRunEnd(_)
DotRunEnd(p) == IF IsDot(At(p)) THEN DotRunEnd(p + 1) ELSE p

\* \s* : the first position >= p that is not white space
RECURSIVE SpaceRunEnd(_)
SpaceRunEnd(p) == IF isspace(At(p)) THEN SpaceRunEnd(p + 1) ELSE p

\* \w* : the first position >= p that is not a word character
RECURSIVE WordRunEnd(_)
WordRunEnd(p) == IF IsWord(At(p)) THEN WordRunEnd(p + 1) ELSE p

\* [_a-zA-Z]\w* at p: the length of the match, 0 when there is none
MatchIdentifier(p) == IF IsIdStart(At(p)) THEN WordRunEnd(p + 1) - p ELSE 0

\* ['"\?\\abfnrtv]|[0-7]{3}|x[0-9A-Fa-f]{2}|u[0-9A-Fa-f]{4}|U[0-9A-Fa-f]{8} at p
MatchEscape(p) ==
    LET hex(n) == \A k \in 1..n : At(p + k) \in HexDigit
    IN  IF At(p) \in {"'", "\"", "?", "\\", "a", "b", "f", "n", "r", "t", "v"} THEN 1
        ELSE IF \A k \in 0..2 : At(p + k) \in OctDigit THEN 3
        ELSE IF At(p) = "x" /\ hex(2) THEN 3
        ELSE IF At(p) = "u" /\ hex(4) THEN 5
        ELSE IF At(p) = "U" /\ hex(8) THEN 9
        ELSE 0

\* the longest delimiter a raw string may have: {0,16}
RAW_DELIMITER_MAX == 16

\* [^()\\\s]* : the first position >= p that a raw-string delimiter cannot hold
RECURSIVE DelimRunEnd(_)
DelimRunEnd(p) ==
    IF At(p) = NUL \/ At(p) \in {"(", ")", "\\"} \/ isspace(At(p)) THEN p
    ELSE DelimRunEnd(p + 1)

\* \)\1" after a lazy .*? : the position after the match, 0 when there is none
RECURSIVE FindRawEnd(_, _)
FindRawEnd(p, d) ==
    IF StartsWith(p, <<")">> \o d \o <<"\"">>) THEN p + Len(d) + 2
    ELSE IF IsDot(At(p)) THEN FindRawEnd(p + 1, d) ELSE 0

\* ([^()\\\s]{0,16})\(.*?\)\1" at p: the position after the match, 0 when none
MatchRawString(p) ==
    LET q == DelimRunEnd(p)
    IN  IF q - p <= RAW_DELIMITER_MAX /\ At(q) = "("
        THEN FindRawEnd(q + 1, IF q > p THEN TextOf(p, q - 1) ELSE <<>>)
        ELSE 0

(***************************************************************************)
(* Parser::Parse...: each returns the iterator it leaves and the error it  *)
(* throws (NoError when it returns normally)                               *)
(***************************************************************************)
Ok(it) == [it |-> it, err |-> NoError]
Throw(error_message, it) == [it |-> it, err |-> Error(error_message, it)]

ParseWhiteSpaces(it) ==
    LET it1 == MoveNext(it)
    IN  Advance(it1, SpaceRunEnd(it1.pos) - it1.pos)

ParseEscapeSequence(it) ==
    LET it1 == MoveNext(it)
        n == MatchEscape(it1.pos)
    IN  IF n = 0 THEN Throw("Invalid escape sequence", it1)
        ELSE Ok(Advance(it1, n))

ParseCharLiteral(it) ==
    LET it1 == MoveNext(it)
        c == Value(it1)
        r == IF c = "'" THEN Throw("Empty character literal found", it1)
             ELSE IF c = "\\" THEN ParseEscapeSequence(it1)
             ELSE Ok(MoveNext(it1))
    IN  IF r.err /= NoError THEN r
        ELSE IF Value(r.it) /= "'"
             THEN Throw("Character literal delimiter is missing", r.it)
             ELSE Ok(MoveNext(r.it))

RECURSIVE StringBody(_, _)
StringBody(it, iterator_start_string) ==
    LET it1 == AdvanceUntilCharIsFound(it, {"\\", "\"", NL})
    IN  IF Value(it1) = NUL THEN Throw("String does not end", iterator_start_string)
        ELSE IF Value(it1) = "\"" THEN Ok(MoveNext(it1))
        ELSE IF Value(it1) = "\\"
             THEN LET r == ParseEscapeSequence(it1)
                  IN  IF r.err /= NoError THEN r
                      ELSE StringBody(r.it, iterator_start_string)
        ELSE Throw("String does not end", iterator_start_string)

ParseString(it) ==
    LET is_raw_string == (PreviousValue(it) = "R")
        it1 == MoveNext(it)
        e == MatchRawString(it1.pos)
    IN  IF is_raw_string
        THEN IF e = 0 THEN Throw("Invalid raw string", it)
             ELSE Ok(Advance(it1, e - it1.pos))
        ELSE StringBody(it1, it)

\* ParseDirective that moves back to the '#' when the comment does not end on the line
ParseDirective_BackToStart(it) ==
    LET it1 == MoveNext(it)
        p == FindOnLine(it1.pos, <<"/", "*">>)
        it2 == Advance(it1, p + 2 - it1.pos)
        q == FindOnLine(it2.pos, <<"*", "/">>)
    IN  IF p /= 0
        THEN IF q /= 0 THEN Advance(it2, DotRunEnd(q + 2) - it2.pos)
             ELSE MoveBack(it2, it2.pos - it.pos)
        ELSE MoveNext(AdvanceUntilCharIsFound(it1, {NL}))

\* ParseDirective that moves back before the comment also when it ends on the line
ParseDirective_AlwaysSplit(it) ==
    LET it1 == MoveNext(it)
        p == FindOnLine(it1.pos, <<"/", "*">>)
        it2 == Advance(it1, p + 2 - it1.pos)
    IN  IF p /= 0
        THEN MoveBack(it2, 2)
        ELSE MoveNext(AdvanceUntilCharIsFound(it1, {NL}))

ParseDirective(it) ==
    LET it1 == MoveNext(it)
        p == FindOnLine(it1.pos, <<"/", "*">>)
        it2 == Advance(it1, p + 2 - it1.pos)
        q == FindOnLine(it2.pos, <<"*", "/">>)
    IN  IF p /= 0
        THEN IF q /= 0 THEN Advance(it2, DotRunEnd(q + 2) - it2.pos)
             ELSE MoveBack(it2, 2)
        ELSE MoveNext(AdvanceUntilCharIsFound(it1, {NL}))

\* while (iterator.Match(R"(\s*//.*)"));
RECURSIVE MoreLineComments(_)
MoreLineComments(p) ==
    LET w == SpaceRunEnd(p)
    IN  IF StartsWith(w, <<"/", "/">>) THEN MoreLineComments(DotRunEnd(w + 2)) ELSE p

\* returns [it, err, match]
ParseComments(it) ==
    LET close == FindAny(it.pos + 2, <<"*", "/">>)
    IN  IF Peek(it) = "*"
        THEN IF close /= 0
             THEN [it |-> Advance(it, SpaceRunEnd(close + 2) - it.pos),
                   err |-> NoError, match |-> TRUE]
             ELSE [it |-> it, match |-> FALSE,
                   err |-> Error("C style comment (/*) does not end (*/)", it)]
        ELSE IF Peek(it) = "/"
        THEN [it |-> Advance(it, MoreLineComments(DotRunEnd(it.pos + 2)) - it.pos),
              err |-> NoError, match |-> TRUE]
        ELSE [it |-> it, err |-> NoError, match |-> FALSE]

(***************************************************************************)
(* Parser::Container and Parser::CodeBlock                                 *)
(***************************************************************************)
\* Container(name, type, braces) and Container(type, braces): parenthesis(0)
Container(name, type, braces) ==
    [type |-> type, braces |-> braces, parenthesis |-> 0, name |-> name]

CodeBlock(type, begin, end) == [type |-> type, begin |-> begin, end |-> end]

Size(b) == b.end - b.begin + 1
ToString(b) == TextOf(b.begin, b.end)

Back(s) == s[Len(s)]
SetBack(s, v) == [s EXCEPT ![Len(s)] = v]
PopBack(s) == SubSeq(s, 1, Len(s) - 1)

(***************************************************************************)
(* Parser::CodeBlockReverseIterator: [current, skipped]; current is the    *)
(* index of the block it stands on, 0 for rend()                           *)
(***************************************************************************)
NonCode == {"none", "empty", "comment"}

\* the last index <= i of a block that is code, 0 when there is none
RECURSIVE LastCode(_, _)
LastCode(blocks, i) ==
    IF i = 0 THEN 0
    ELSE IF blocks[i].type \in NonCode THEN LastCode(blocks, i - 1) ELSE i

CodeBlockReverseIterator(blocks) ==
    LET c == LastCode(blocks, Len(blocks))
    IN  [current |-> c, skipped |-> Len(blocks) - c]

\* Next(), called only when current /= rend()
RevNext(blocks, r) ==
    LET c == LastCode(blocks, r.current - 1)
    IN  [current |-> c, skipped |-> r.skipped + (r.current - 1 - c)]

CurrentType(blocks, r) == IF r.current = 0 THEN "none" ELSE blocks[r.current].type

(***************************************************************************)
(* Parser::MergeCodeBlocks: the number of blocks to merge (0: no merge)    *)
(***************************************************************************)
BlocksToMerge(blocks, b) ==
    LET r == CodeBlockReverseIterator(blocks)
    IN  CASE b.type = "begin_group" ->
               IF Back(blocks).type = "empty" THEN 1 ELSE 0
          [] b.type = "identifier" ->
               IF CurrentType(blocks, r) = "identifier_scope"
               THEN LET r2 == RevNext(blocks, r)
                    IN  IF CurrentType(blocks, r2) = "identifier"
                        THEN r2.skipped + 2 ELSE r.skipped + 1
               ELSE 0
          [] b.type = "access_modifier" ->
               IF CurrentType(blocks, r) = "identifier" THEN r.skipped + 1 ELSE 0
          [] b.type = "initialization_list" ->
               IF CurrentType(blocks, r) = "initialization_list"
               THEN r.skipped + 1 ELSE 0
          [] OTHER -> 0

\* returns [merged, blocks]
MergeCodeBlocks(blocks, b) ==
    IF blocks = <<>> THEN [merged |-> FALSE, blocks |-> blocks]
    ELSE LET n == BlocksToMerge(blocks, b)
             kept == SubSeq(blocks, 1, Len(blocks) - (n - 1))
         IN  IF n = 0 THEN [merged |-> FALSE, blocks |-> blocks]
             ELSE [merged |-> TRUE,
                   blocks |-> SetBack(kept, [Back(kept) EXCEPT !.end = b.end,
                                                               !.type = b.type])]

(***************************************************************************)
(* Parser::InsertCodeBlock(type, begin), with iterator.Pointer() = pointer *)
(***************************************************************************)
MergeWithPrevious(blocks, conts, type) ==
    \/ type = "previous_type"
    \/ type = Back(blocks).type
    \/ /\ Back(blocks).type = "arguments_or_parameters"
       /\ Back(conts).parenthesis > 0
    \/ /\ Back(blocks).type = "initialization_list"
       /\ Back(conts).type = "initialization_list"

\* WithGap with the gap dropped: the unclassified bytes before begin get no block
WithGap_Dropped(blocks, code_to_process, begin) == blocks

\* WithGap with the gap block ending on begin instead of begin - 1
WithGap_Overlapping(blocks, code_to_process, begin) ==
    IF begin > code_to_process
    THEN Append(blocks, CodeBlock("other", code_to_process, begin))
    ELSE blocks

\* the gap before begin becomes a block of type other
WithGap(blocks, code_to_process, begin) ==
    IF begin > code_to_process
    THEN Append(blocks, CodeBlock("other", code_to_process, begin - 1))
    ELSE blocks

InsertCodeBlock(blocks, conts, type, begin, pointer) ==
    IF blocks /= <<>> /\ MergeWithPrevious(blocks, conts, type)
    THEN SetBack(blocks, [Back(blocks) EXCEPT !.end = pointer - 1])
    ELSE LET code_to_process == IF blocks = <<>> THEN 1 ELSE Back(blocks).end + 1
             gapped == WithGap(blocks, code_to_process, begin)
             b == CodeBlock(type, begin, pointer - 1)
             m == MergeCodeBlocks(gapped, b)
         IN  IF type = "none" THEN gapped
             ELSE IF m.merged THEN m.blocks ELSE Append(gapped, b)

(***************************************************************************)
(* Parser::Parser: one iteration of the main loop                          *)
(***************************************************************************)
S_class == <<"c", "l", "a", "s", "s">>
S_enum == <<"e", "n", "u", "m">>
S_namespace == <<"n", "a", "m", "e", "s", "p", "a", "c", "e">>
S_struct == <<"s", "t", "r", "u", "c", "t">>
S_public == <<"p", "u", "b", "l", "i", "c">>
S_protected == <<"p", "r", "o", "t", "e", "c", "t", "e", "d">>
S_private == <<"p", "r", "i", "v", "a", "t", "e">>

\* what the switch starts from: code_block_type none, nothing changed
Unchanged ==
    [it |-> iterator, type |-> "none", err |-> NoError,
     code_blocks |-> code_blocks, containers |-> containers,
     next_container |-> next_container, last_identifier |-> last_identifier,
     container_name |-> container_name]

IncBraces(conts) == SetBack(conts, [Back(conts) EXCEPT !.braces = @ + 1])
IncParenthesis(conts) == SetBack(conts, [Back(conts) EXCEPT !.parenthesis = @ + 1])

\* case '{'
CaseBeginGroup ==
    IF next_container = "none" \/ Back(containers).type = "initialization_list"
    THEN [Unchanged EXCEPT !.type = "begin_group", !.it = MoveNext(iterator),
                           !.containers = IncBraces(containers)]
    ELSE [Unchanged EXCEPT !.type = "begin_group", !.it = MoveNext(iterator),
                           !.containers = Append(containers,
                                Container(container_name, next_container, 1)),
                           !.next_container = "none",
                           !.container_name = <<>>]

\* PopInitializationList without the test of the parenthesis count
PopInitializationList_BracesOnly(conts) ==
    IF Back(conts).braces = 0 THEN PopBack(conts) ELSE conts

\* the pop of case '}' and case ')' for an initialization list
PopInitializationList(conts) ==
    IF Back(conts).braces = 0 /\ Back(conts).parenthesis = 0 THEN PopBack(conts) ELSE conts

\* PopContainer without the test of containers.size()
PopContainer_PopsSentinel(conts) ==
    IF Back(conts).braces = 0 THEN PopBack(conts) ELSE conts

\* the pop of case '}' for any other container
PopContainer(conts) ==
    IF Back(conts).braces = 0 /\ Len(conts) > 1 THEN PopBack(conts) ELSE conts

\* case '}'
CaseEndGroup ==
    LET dec == SetBack(containers, [Back(containers) EXCEPT !.braces = @ - 1])
    IN  IF Back(containers).braces = 0
        THEN [Unchanged EXCEPT
                !.err = Error("An extra '}' was found. Perhaps you forgot a '{'", iterator)]
        ELSE IF Back(dec).type = "initialization_list"
        THEN [Unchanged EXCEPT !.type = "previous_type", !.it = MoveNext(iterator),
                               !.containers = PopInitializationList(dec)]
        ELSE [Unchanged EXCEPT !.type = "end_group", !.it = MoveNext(iterator),
                               !.containers = PopContainer(dec)]

\* case '(': the promotion of the identifier before it
Promote ==
    LET r == CodeBlockReverseIterator(code_blocks)
        c == r.current
    IN  IF Back(containers).type \in {"function", "initialization_list"} THEN Unchanged
        ELSE IF c /= 0 /\ code_blocks[c].type = "identifier"
        THEN IF Back(containers).name = ToString(code_blocks[c])
             THEN [Unchanged EXCEPT
                     !.code_blocks = [code_blocks EXCEPT ![c].type = "constructor_destructor"],
                     !.next_container = "constructor_destructor",
                     !.container_name = last_identifier]
             ELSE [Unchanged EXCEPT
                     !.code_blocks = [code_blocks EXCEPT ![c].type = "function_name"],
                     !.next_container = "function",
                     !.container_name = last_identifier]
        ELSE Unchanged

CaseOpenParenthesis ==
    [Promote EXCEPT !.type = "arguments_or_parameters", !.it = MoveNext(iterator),
                    !.containers = IncParenthesis(containers)]

\* case ')'
CaseCloseParenthesis ==
    LET dec == SetBack(containers, [Back(containers) EXCEPT !.parenthesis = @ - 1])
    IN  IF Back(containers).parenthesis = 0
        THEN [Unchanged EXCEPT
                !.err = Error("An extra ')' was found. Perhaps you forgot a '('", iterator)]
        ELSE IF Back(dec).type = "initialization_list"
        THEN [Unchanged EXCEPT !.type = "previous_type", !.it = MoveNext(iterator),
                               !.containers = PopInitializationList(dec)]
        ELSE [Unchanged EXCEPT !.type = "arguments_or_parameters",
                               !.it = MoveNext(iterator), !.containers = dec]

PushInitializationList(conts) ==
    Append(conts, Container(<<>>, "initialization_list", 0))

\* case ','
CaseComma ==
    IF /\ Back(containers).type /= "initialization_list"
       /\ CurrentType(code_blocks, CodeBlockReverseIterator(code_blocks))
             = "initialization_list"
    THEN [Unchanged EXCEPT !.type = "initialization_list", !.it = MoveNext(iterator),
                           !.containers = PushInitializationList(containers)]
    ELSE [Unchanged EXCEPT !.it = MoveNext(iterator)]

\* case ':'
CaseColon ==
    LET it1 == MoveNext(iterator)
    IN  IF Value(it1) = ":"
        THEN [Unchanged EXCEPT !.type = "identifier_scope", !.it = MoveNext(it1)]
        ELSE IF next_container = "constructor_destructor"
        THEN [Unchanged EXCEPT !.type = "initialization_list", !.it = it1,
                               !.containers = PushInitializationList(containers)]
        ELSE IF last_identifier \in {S_public, S_protected, S_private}
        THEN [Unchanged EXCEPT !.type = "access_modifier", !.it = it1]
        ELSE [Unchanged EXCEPT !.it = it1]

Keyword(type, next) ==
    [Unchanged EXCEPT !.type = type, !.next_container = next, !.container_name = <<>>]

\* default: an identifier, a keyword, white space, or anything else
CaseDefault ==
    LET n == MatchIdentifier(iterator.pos)
        match_string == TextOf(iterator.pos, iterator.pos + n - 1)
        it1 == Advance(iterator, n)
    IN  IF n > 0
        THEN IF match_string = S_class
             THEN [Keyword("class_keyword", "class_container") EXCEPT !.it = it1]
             ELSE IF match_string = S_enum
             THEN [Keyword("enumeration", "enumeration") EXCEPT !.it = it1]
             ELSE IF match_string = S_namespace
             THEN [Keyword("namespace_keyword", "namespace_container") EXCEPT !.it = it1]
             ELSE IF match_string = S_struct
             THEN [Keyword("struct_keyword", "struct_container") EXCEPT !.it = it1]
             ELSE [Unchanged EXCEPT !.type = "identifier", !.it = it1,
                                    !.last_identifier = match_string,
                                    !.container_name =
                                        IF container_name = <<>> THEN match_string
                                        ELSE container_name]
        ELSE IF isspace(Value(iterator))
        THEN [Unchanged EXCEPT !.type = "empty", !.it = ParseWhiteSpaces(iterator)]
        ELSE Unchanged

Parsed(type, r) == [Unchanged EXCEPT !.type = type, !.it = r.it, !.err = r.err]

\* switch (c)
Switch ==
    LET c == Value(iterator)
    IN  CASE c = "'" -> Parsed("char_literal", ParseCharLiteral(iterator))
          [] c = "\"" -> Parsed("string_literal", ParseString(iterator))
          [] c = "#" -> [Unchanged EXCEPT !.type = "directive",
                                          !.it = ParseDirective(iterator)]
          [] c = ";" -> [Unchanged EXCEPT !.type = "statement_terminator",
                                          !.it = MoveNext(iterator)]
          [] c = "{" -> CaseBeginGroup
          [] c = "}" -> CaseEndGroup
          [] c = "/" -> LET r == ParseComments(iterator)
                        IN  Parsed(IF r.match THEN "comment" ELSE "none", r)
          [] c = "(" -> CaseOpenParenthesis
          [] c = ")" -> CaseCloseParenthesis
          [] c = "," -> CaseComma
          [] c = ":" -> CaseColon
          [] OTHER -> CaseDefault

(***************************************************************************)
(* CodeGuardNamespaces and CodeGuardIdentifier.  A block cursor is an      *)
(* index; Len(blocks) + 1 is cend().  Incrementing a cursor that already   *)
(* is cend() is undefined behaviour: ub marks that the walk did it.        *)
(***************************************************************************)
\* ProcessNamespace with the partial name kept when a ';' ends the declaration
RECURSIVE ProcessNamespace_KeepsPartial(_, _, _)
ProcessNamespace_KeepsPartial(blocks, block, namespace_identifer) ==
    LET b == block + 1
    IN  IF b = Len(blocks) + 1 THEN [block |-> b, add |-> <<>>]
        ELSE IF blocks[b].type \in {"begin_group", "statement_terminator"}
        THEN [block |-> b, add |-> namespace_identifer]
        ELSE IF blocks[b].type = "identifier"
        THEN ProcessNamespace_KeepsPartial(blocks, b,
                 namespace_identifer \o ToString(blocks[b]) \o <<"_">>)
        ELSE ProcessNamespace_KeepsPartial(blocks, b, namespace_identifer)

\* ProcessNamespace: [block, add] - where ++block stopped and the text to add
RECURSIVE ProcessNamespace(_, _, _)
ProcessNamespace(blocks, block, namespace_identifer) ==
    LET b == block + 1
    IN  IF b = Len(blocks) + 1 THEN [block |-> b, add |-> <<>>]
        ELSE IF blocks[b].type = "begin_group"
        THEN [block |-> b, add |-> namespace_identifer]
        ELSE IF blocks[b].type = "statement_terminator"
        THEN [block |-> b, add |-> <<>>]
        ELSE IF blocks[b].type = "identifier"
        THEN ProcessNamespace(blocks, b,
                 namespace_identifer \o ToString(blocks[b]) \o <<"_">>)
        ELSE ProcessNamespace(blocks, b, namespace_identifer)

\* the inner while of the class/struct/enum case: [block, stop]
RECURSIVE SkipDeclaration(_, _)
SkipDeclaration(blocks, block) ==
    LET b == block + 1
    IN  IF b = Len(blocks) + 1 THEN [block |-> b, stop |-> FALSE]
        ELSE IF blocks[b].type = "begin_group" THEN [block |-> b, stop |-> TRUE]
        ELSE IF blocks[b].type = "statement_terminator" THEN [block |-> b, stop |-> FALSE]
        ELSE SkipDeclaration(blocks, b)

\* the for loop, entered with the cursor at block: [result, ub]
RECURSIVE CodeGuardNamespaces(_, _, _)
CodeGuardNamespaces(blocks, block, result) ==
    IF block = Len(blocks) + 1 THEN [result |-> result, ub |-> FALSE]
    ELSE IF block > Len(blocks) + 1 THEN [result |-> result, ub |-> TRUE]
    ELSE IF blocks[block].type = "namespace_keyword"
    THEN LET r == ProcessNamespace(blocks, block, <<>>)
         IN  CodeGuardNamespaces(blocks, r.block + 1, result \o r.add)
    ELSE IF blocks[block].type \in {"enumeration", "class_keyword", "struct_keyword"}
    THEN LET r == SkipDeclaration(blocks, block)
         IN  IF r.stop THEN [result |-> result, ub |-> FALSE]
             ELSE CodeGuardNamespaces(blocks, r.block + 1, result)
    ELSE CodeGuardNamespaces(blocks, block + 1, result)

UpperCased(s) == [k \in 1..Len(s) |-> toupper(s[k])]

\* CodeGuardIdentifier(path, code_blocks): [result, ub]
CodeGuardIdentifier(path, blocks) ==
    LET r == CodeGuardNamespaces(blocks, 1, <<>>)
    IN  [result |-> UpperCased(r.result \o path.stem \o <<"_", "H">>),
         ub |-> r.ub]

(***************************************************************************)
(* CodeWriter: w = [buffer, header_file, cpp_file].  A written byte is     *)
(* [src, ch]: src is the position of the input byte it copies, 0 for a     *)
(* byte the emitter adds.                                                  *)
(***************************************************************************)
Added(s) == [k \in 1..Len(s) |-> [src |-> 0, ch |-> s[k]]]
Copied(b) == [k \in 1..Size(b) |-> [src |-> b.begin + k - 1, ch |-> input[b.begin + k - 1]]]

AppendToBuffer(w, s) == [w EXCEPT !.buffer = @ \o s]
WriteBufferToHeader(w) ==
    [w EXCEPT !.header_file = @ \o w.buffer, !.buffer = <<>>]
WriteBufferToCpp(w) ==
    [w EXCEPT !.cpp_file = @ \o w.buffer, !.buffer = <<>>]
WriteBufferToBoth(w) ==
    [w EXCEPT !.header_file = @ \o w.buffer, !.cpp_file = @ \o w.buffer, !.buffer = <<>>]
\* WriteToHeader that writes s before the pending buffer
WriteToHeader_BeforeBuffer(w, s) ==
    [w EXCEPT !.header_file = @ \o s \o w.buffer, !.buffer = <<>>]

WriteToHeader(w, s) == [WriteBufferToHeader(w) EXCEPT !.header_file = @ \o s]
WriteToCpp(w, s) == [WriteBufferToCpp(w) EXCEPT !.cpp_file = @ \o s]
WriteToBoth(w, s) ==
    [WriteBufferToBoth(w) EXCEPT !.header_file = @ \o s, !.cpp_file = @ \o s]

Writer == [buffer |-> buffer, header_file |-> header_file, cpp_file |-> cpp_file]
SetWriter(w) ==
    /\ buffer' = w.buffer
    /\ header_file' = w.header_file
    /\ cpp_file' = w.cpp_file

\* path(filename).replace_extension("h").string()
HeaderFilename(path) == path.dir \o path.stem \o <<".", "h">>

T_ifndef == <<"#", "i", "f", "n", "d", "e", "f", " ">>
T_define == <<"#", "d", "e", "f", "i", "n", "e", " ">>
T_include == <<"#", "i", "n", "c", "l", "u", "d", "e", " ", "\"">>
T_endif == <<"#", "e", "n", "d", "i", "f", " ", "/", "/", " ">>
T_scope == <<":", ":">>

\* lines 260-263: the guard lines and the include line
WritePrologue(w, guard, path) ==
    LET w1 == WriteToHeader(w, Added(T_ifndef \o guard \o <<NL>>))
        w2 == WriteToHeader(w1, Added(T_define \o guard \o <<NL, NL>>))
    IN  WriteToCpp(w2, Added(T_include \o HeaderFilename(path) \o <<"\"", NL, NL>>))

\* line 410, then ~CodeWriter
WriteEpilogue(w, guard) ==
    WriteBufferToHeader(
        WriteToHeader(w, Added(<<NL, NL>> \o T_endif \o guard \o <<NL, NL>>)))

\* lines 343-345: the scope prefix, one WriteToCpp per named container
RECURSIVE WriteScope(_, _, _)
WriteScope(w, conts, k) ==
    IF k > Len(conts) THEN w
    ELSE WriteScope(IF Len(conts[k].name) > 0
                    THEN WriteToCpp(w, Added(conts[k].name \o T_scope))
                    ELSE w,
                    conts, k + 1)

(***************************************************************************)
(* GenerateFileCode                                                        *)
(***************************************************************************)
cend == Len(code_blocks) + 1

\* NoWriter with the writer constructed before the lexer runs
NoWriter_Opened == "open"

\* code_writer while Parser parser(filename) runs (line 239): it is constructed
\* at line 249, after the lexer has returned
NoWriter == "none"

\* Parser parser(filename): one iteration of the lexer's main loop (lines 529-712)
ParserLoop ==
    /\ pc = "parse"
    /\ Value(iterator) /= NUL
    /\ LET r == Switch
       IN  /\ r.err = NoError
           /\ IF r.type = "none"
              THEN /\ iterator' = MoveNext(r.it)
                   /\ code_blocks' = r.code_blocks
              ELSE /\ iterator' = r.it
                   /\ code_blocks' = InsertCodeBlock(r.code_blocks, r.containers, r.type,
                                                     iterator.pos, r.it.pos)
           /\ containers' = r.containers
           /\ next_container' = r.next_container
           /\ last_identifier' = r.last_identifier
           /\ container_name' = r.container_name
    /\ UNCHANGED <<runvars, filename, input, pc, error, emitvars>>

\* a line of Console::ErrorStream() or Console::WarningStream()
Report(stream, what, path, line, code) ==
    [stream |-> stream, what |-> what, filename |-> path, line |-> line, code |-> code]

NoPath == [dir |-> <<>>, stem |-> <<>>]

\* lines 412-413: Error at <filename> (line <Line()>): <what()>: <CodeContainingError()>
ErrorReport(path, e) == Report("error", e.what, path, e.line, CodeContainingError(e))

\* the lexer throws Parser::Error; GenerateFileCode catches and reports it (411-414)
ParserThrow ==
    /\ pc = "parse"
    /\ Value(iterator) /= NUL
    /\ Switch.err /= NoError
    /\ error' = Switch.err
    /\ console' = Append(console, ErrorReport(filename, Switch.err))
    /\ pc' = "error"
    /\ UNCHANGED <<base_dir, files_to_process, file, error_code, filename, input, iterator,
                   code_blocks, containers, next_container, last_identifier,
                   container_name, emitvars>>

\* the end of the buffer: the trailing gap is flushed (line 714)
ParserEnd ==
    /\ pc = "parse"
    /\ Value(iterator) = NUL
    /\ code_blocks' = InsertCodeBlock(code_blocks, containers, "none",
                                      iterator.pos, iterator.pos)
    /\ pc' = "parsed"
    /\ UNCHANGED <<runvars, filename, input, iterator, containers, next_container,
                   last_identifier, container_name, error, emitvars>>

\* lines 243-246: nothing to process
NoCode ==
    /\ pc = "parsed"
    /\ code_blocks = <<>>
    /\ console' = Append(console,
                       Report("warning", "does not contain any code to process",
                              filename, 0, <<>>))
    /\ pc' = "done"
    /\ UNCHANGED <<base_dir, files_to_process, file, error_code, filename, input, lexvars,
                   emitvars>>

\* lines 248-266: the writer is opened, the leading comment, the guard, the include
Prologue ==
    /\ pc = "parsed"
    /\ code_blocks /= <<>>
    /\ LET leading == code_blocks[1].type = "comment"
           w0 == [buffer |-> <<>>, header_file |-> <<>>, cpp_file |-> <<>>]
           w1 == IF leading THEN WriteToBoth(w0, Copied(code_blocks[1])) ELSE w0
           g == CodeGuardIdentifier(filename, code_blocks)
       IN  /\ code_block' = IF leading THEN 2 ELSE 1
           /\ IF g.ub
              THEN /\ SetWriter(w1)
                   /\ pc' = "ub"
                   /\ UNCHANGED <<include_guard, e_containers>>
              ELSE /\ include_guard' = g.result
                   /\ SetWriter(WritePrologue(w1, g.result, filename))
                   /\ e_containers' = <<Container(<<>>, "none", 0)>>
                   /\ pc' = "main"
    /\ e_next_container' = "none"
    /\ code_writer' = "open"
    /\ UNCHANGED <<runvars, filename, input, lexvars, function, function_name, identifier>>

KeywordContainer(type) ==
    CASE type = "namespace_keyword" -> "namespace_container"
      [] type = "class_keyword" -> "class_container"
      [] type = "struct_keyword" -> "struct_container"
      [] type = "enumeration" -> "enumeration"

\* case end_group of the main loop (lines 394-396)
CloseGroup(conts) ==
    LET dec == SetBack(conts, [Back(conts) EXCEPT !.braces = @ - 1])
    IN  IF Back(dec).braces = 0 /\ Len(dec) > 1 THEN PopBack(dec) ELSE dec

\* while (++code_block != cend) { switch ... }: one block of the main loop (268-408)
MainLoop ==
    /\ pc = "main"
    /\ code_block + 1 < cend
    /\ LET b == code_blocks[code_block + 1]
           current_code == Copied(b)
       IN  /\ code_block' = code_block + 1
           /\ CASE b.type \in {"directive", "access_modifier", "statement_terminator"} ->
                     /\ SetWriter(WriteToHeader(Writer, current_code))
                     /\ UNCHANGED <<pc, e_containers, e_next_container, function,
                                    function_name, identifier>>
                [] b.type \in {"namespace_keyword", "class_keyword", "struct_keyword",
                               "enumeration"} ->
                     /\ e_next_container' = KeywordContainer(b.type)
                     /\ identifier' = <<>>
                     /\ SetWriter(AppendToBuffer(Writer, current_code))
                     /\ pc' = "container"
                     /\ UNCHANGED <<e_containers, function, function_name>>
                [] b.type \in {"function_name", "constructor_destructor"} ->
                     /\ function_name' = ToString(b)
                     /\ function' = current_code
                     /\ pc' = "signature"
                     /\ UNCHANGED <<e_containers, e_next_container, identifier, buffer,
                                    header_file, cpp_file>>
                [] b.type = "end_group" ->
                     /\ SetWriter(WriteToHeader(Writer, current_code))
                     /\ e_containers' = CloseGroup(e_containers)
                     /\ UNCHANGED <<pc, e_next_container, function, function_name,
                                    identifier>>
                [] b.type = "begin_group" ->
                     /\ SetWriter(WriteToHeader(Writer, current_code))
                     /\ e_containers' = IncBraces(e_containers)
                     /\ UNCHANGED <<pc, e_next_container, function, function_name,
                                    identifier>>
                [] OTHER ->
                     /\ SetWriter(AppendToBuffer(Writer, current_code))
                     /\ UNCHANGED <<pc, e_containers, e_next_container, function,
                                    function_name, identifier>>
    /\ UNCHANGED <<runvars, filename, input, lexvars, include_guard>>
    /\ UNCHANGED code_writer

\* ProcessContainer: one block of its while loop (lines 276-297)
ProcessContainer ==
    /\ pc = "container"
    /\ code_block' = code_block + 1
    /\ IF code_block + 1 = cend
       THEN /\ pc' = "main"
            /\ UNCHANGED <<e_containers, identifier, buffer, header_file, cpp_file>>
       ELSE LET b == code_blocks[code_block + 1]
                w == AppendToBuffer(Writer, Copied(b))
            IN  CASE b.type = "identifier" ->
                       /\ identifier' = IF identifier = <<>> THEN ToString(b)
                                        ELSE identifier
                       /\ SetWriter(w)
                       /\ UNCHANGED <<pc, e_containers>>
                  [] b.type = "begin_group" ->
                       /\ e_containers' = Append(e_containers,
                              Container(identifier, e_next_container, 1))
                       /\ SetWriter(WriteBufferToHeader(w))
                       /\ pc' = "main"
                       /\ UNCHANGED identifier
                  [] b.type = "statement_terminator" ->
                       /\ SetWriter(WriteBufferToHeader(w))
                       /\ pc' = "main"
                       /\ UNCHANGED <<e_containers, identifier>>
                  [] OTHER ->
                       /\ SetWriter(w)
                       /\ UNCHANGED <<pc, e_containers, identifier>>
    /\ UNCHANGED <<runvars, filename, input, lexvars, e_next_container, include_guard,
                   function, function_name>>
    /\ UNCHANGED code_writer

\* Relocate with the block that starts the definition written to both streams
Relocate_TriggerToBoth(w, conts, fn, b) ==
    LET w1 == WriteBufferToBoth(w)
        w2 == WriteScope(w1, conts, 1)
        w3 == WriteToBoth(w2, fn)
        w4 == WriteToHeader(w3, Added(<<";">>))
    IN  WriteToBoth(w4, Copied(b))

\* lines 340-353: a definition starts at block b
Relocate(w, conts, fn, b) ==
    LET w1 == WriteBufferToBoth(w)
        w2 == WriteScope(w1, conts, 1)
        w3 == WriteToBoth(w2, fn)
        w4 == WriteToHeader(w3, Added(<<";">>))
    IN  WriteToCpp(w4, Copied(b))

\* the function-signature sub-walk: one block of its while loop (lines 333-382)
Signature ==
    /\ pc = "signature"
    /\ code_block' = code_block + 1
    /\ IF code_block + 1 = cend
       THEN /\ pc' = "main"
            /\ UNCHANGED <<e_containers, function, buffer, header_file, cpp_file>>
       ELSE LET b == code_blocks[code_block + 1]
            IN  CASE b.type \in {"begin_group", "initialization_list"} ->
                       /\ SetWriter(Relocate(Writer, e_containers, function, b))
                       /\ e_containers' = Append(e_containers,
                              Container(function_name, "function",
                                        IF b.type = "begin_group" THEN 1 ELSE 0))
                       /\ pc' = "function"
                       /\ UNCHANGED function
                  [] b.type = "statement_terminator" ->
                       /\ SetWriter(WriteToHeader(Writer, function \o Copied(b)))
                       /\ pc' = "main"
                       /\ UNCHANGED <<e_containers, function>>
                  [] OTHER ->
                       /\ function' = function \o Copied(b)
                       /\ UNCHANGED <<pc, e_containers, buffer, header_file, cpp_file>>
    /\ UNCHANGED <<runvars, filename, input, lexvars, e_next_container, include_guard,
                   function_name, identifier>>
    /\ UNCHANGED code_writer

\* lines 363-365 of the body loop
CloseFunctionGroup(conts) ==
    LET dec == SetBack(conts, [Back(conts) EXCEPT !.braces = @ - 1])
    IN  IF Back(dec).braces = 0 THEN PopBack(dec) ELSE dec

\* the body loop of a relocated definition: its condition and one block (355-372)
FunctionBody ==
    /\ pc = "function"
    /\ IF Back(e_containers).type /= "function"
       THEN /\ pc' = "main"
            /\ UNCHANGED <<code_block, e_containers, buffer, header_file, cpp_file>>
       ELSE /\ code_block' = code_block + 1
            /\ IF code_block + 1 = cend
               THEN /\ pc' = "main"
                    /\ UNCHANGED <<e_containers, buffer, header_file, cpp_file>>
               ELSE LET b == code_blocks[code_block + 1]
                    IN  /\ SetWriter(WriteToCpp(Writer, Copied(b)))
                        /\ e_containers' =
                             CASE b.type = "begin_group" -> IncBraces(e_containers)
                               [] b.type = "end_group" -> CloseFunctionGroup(e_containers)
                               [] OTHER -> e_containers
                        /\ UNCHANGED pc
    /\ UNCHANGED <<runvars, filename, input, lexvars, e_next_container, include_guard,
                   function, function_name, identifier>>
    /\ UNCHANGED code_writer

\* the main loop ends: line 410 and the writer's destructor
Epilogue ==
    /\ pc = "main"
    /\ code_block + 1 = cend
    /\ code_block' = cend
    /\ SetWriter(WriteEpilogue(Writer, include_guard))
    /\ code_writer' = "closed"
    /\ pc' = "done"
    /\ UNCHANGED <<runvars, filename, input, lexvars, e_containers, e_next_container,
                   include_guard, function, function_name, identifier>>

\* ++code_block on a cursor that already is cend(): undefined behaviour (line 268)
PastTheEnd ==
    /\ pc = "main"
    /\ code_block = cend
    /\ pc' = "ub"
    /\ UNCHANGED <<runvars, filename, input, lexvars, emitvars>>

\* what a build makes of the undefined increment: the cursor never compares equal
\* to cend() again, so the walk reads blocks that do not exist until the process
\* is killed, with or without bytes of them written first
Undefined ==
    /\ pc = "ub"
    /\ \E outcome \in {"crashed", "garbage"} : pc' = outcome
    /\ UNCHANGED <<runvars, filename, input, lexvars, emitvars>>

(***************************************************************************)
(* GenerateCode and GetFilesToProcess.  base_dir is [status, entries,      *)
(* fails_at]: what exists() and is_directory() find, the entries the       *)
(* recursive_directory_iterator yields in its order, and the number of the *)
(* entry at which the iteration throws filesystem_error (0: it does not;   *)
(* 1: the directory itself cannot be opened).                              *)
(***************************************************************************)
OK_RESULT == 0
ERROR_RESULT == 1

\* lines 429-437: the directory is looked at
GenerateCode ==
    /\ pc = "start"
    /\ IF base_dir.status = "directory"
       THEN /\ pc' = "scan"
            /\ UNCHANGED <<error_code, console>>
       ELSE /\ console' = Append(console,
                   Report("error",
                          IF base_dir.status = "no_access"
                          THEN "An error ocurred while accessing directory"
                          ELSE "Could not access directory", NoPath, 0, <<>>))
            /\ error_code' = <<ERROR_RESULT>>
            /\ pc' = "returned"
    /\ UNCHANGED <<base_dir, files_to_process, file, filename, input, lexvars, emitvars>>

\* the entries the iteration yields before it ends or throws
Iterated(dir) ==
    IF dir.fails_at = 0 THEN dir.entries ELSE SubSeq(dir.entries, 1, dir.fails_at - 1)

\* path.extension() == ".cppx" && is_regular_file(path)
IsFileToProcess(entry) == entry.cppx

\* lines 439-446: GetFilesToProcess (76-93) and the message about what it found
GetFilesToProcess ==
    /\ pc = "scan"
    /\ LET found == SelectSeq(Iterated(base_dir), IsFileToProcess)
           thrown == IF base_dir.fails_at = 0 THEN <<>>
                     ELSE <<Report("error",
                                   "An error ocurred while obtaining the files to process",
                                   NoPath, 0, <<>>)>>
           none == IF found = <<>>
                   THEN <<Report("warning", "No extend C++ files (.cppx) found",
                                 NoPath, 0, <<>>)>>
                   ELSE <<>>
       IN  /\ files_to_process' = found
           /\ console' = console \o thrown \o none
    /\ file' = 0
    /\ pc' = "files"
    /\ UNCHANGED <<base_dir, error_code, filename, input, lexvars, emitvars>>

\* the files loop is at its condition: before the first file, or GenerateFileCode
\* has returned (normally, or after it caught the lexer's error)
AtLoop == pc \in {"files", "done", "error"}

\* lines 449-462: the next file; GenerateFileCode(f) constructs its Parser
GenerateFileCode ==
    /\ AtLoop
    /\ file < Len(files_to_process)
    /\ file' = file + 1
    /\ filename' = files_to_process[file + 1].path
    /\ input' = files_to_process[file + 1].code
    /\ pc' = "parse"
    /\ iterator' = [pos |-> 1, line |-> 1]
    /\ code_blocks' = <<>>
    /\ containers' = <<Container(<<>>, "none", 0)>>
    /\ next_container' = "none"
    /\ last_identifier' = <<>>
    /\ container_name' = <<>>
    /\ error' = NoError
    /\ code_block' = 0
    /\ e_containers' = <<>>
    /\ e_next_container' = "none"
    /\ include_guard' = <<>>
    /\ function' = <<>>
    /\ function_name' = <<>>
    /\ identifier' = <<>>
    /\ buffer' = <<>>
    /\ header_file' = <<>>
    /\ cpp_file' = <<>>
    /\ code_writer' = NoWriter
    /\ UNCHANGED <<base_dir, files_to_process, error_code, console>>

\* line 465: return OK_RESULT
Return ==
    /\ AtLoop
    /\ file = Len(files_to_process)
    /\ error_code' = <<OK_RESULT>>
    /\ pc' = "returned"
    /\ UNCHANGED <<base_dir, files_to_process, file, console, filename, input, lexvars,
                   emitvars>>

(***************************************************************************)
(* The files the tool is run on                                            *)
(***************************************************************************)
\* class C { public: int f() { return 1; } };
In_member ==
    <<"c", "l", "a", "s", "s", " ", "C", " ", "{", " ", "p", "u", "b", "l",
      "i", "c", ":", " ", "i", "n", "t", " ", "f", "(", ")", " ", "{", " ",
      "r", "e", "t", "u", "r", "n", " ", "1", ";", " ", "}", " ", "}", ";">>

\* namespace a { namespace b { class K { K() : x(0) {} int x; }; } }
In_nested ==
    <<"n", "a", "m", "e", "s", "p", "a", "c", "e", " ", "a", " ", "{", " ",
      "n", "a", "m", "e", "s", "p", "a", "c", "e", " ", "b", " ", "{", " ",
      "c", "l", "a", "s", "s", " ", "K", " ", "{", " ", "K", "(", ")", " ",
      ":", " ", "x", "(", "0", ")", " ", "{", "}", " ", "i", "n", "t", " ",
      "x", ";", " ", "}", ";", " ", "}", " ", "}">>

\* class K { K() :\n x{0},\n y(1)\n {} int x; };
In_ctor ==
    <<"c", "l", "a", "s", "s", " ", "K", " ", "{", " ", "K", "(", ")", " ",
      ":", NL, " ", "x", "{", "0", "}", ",", NL, " ", "y", "(", "1", ")", NL,
      " ", "{", "}", " ", "i", "n", "t", " ", "x", ";", " ", "}", ";">>

\* class K { ~K() { } };
In_dtor ==
    <<"c", "l", "a", "s", "s", " ", "K", " ", "{", " ", "~", "K", "(", ")",
      " ", "{", " ", "}", " ", "}", ";">>

\* namespace n { class C { public: C(); void f(); }; }
In_declarations ==
    <<"n", "a", "m", "e", "s", "p", "a", "c", "e", " ", "n", " ", "{", " ",
      "c", "l", "a", "s", "s", " ", "C", " ", "{", " ", "p", "u", "b", "l",
      "i", "c", ":", " ", "C", "(", ")", ";", " ", "v", "o", "i", "d", " ",
      "f", "(", ")", ";", " ", "}", ";", " ", "}">>

\* /* c */\n
In_comment ==
    <<"/", "*", " ", "c", " ", "*", "/", NL>>


Scenarios == {In_member, In_nested, In_ctor, In_dtor, In_declarations}

\* what precedes a scenario in its file: nothing, a blank line, a leading comment
Prefixes == {<<>>, <<NL>>, <<"/", "*", "c", "*", "/", NL>>}

\* the base directory the tool is given: its default, "./" (line 478)
BaseDir == <<".", "/">>

\* the paths of the files: base directory, subdirectory and stem
Paths == {[dir |-> BaseDir, stem |-> <<"k">>],
          [dir |-> BaseDir \o <<"d", "/">>, stem |-> <<"k">>],
          [dir |-> BaseDir, stem |-> <<"1", "a">>],
          [dir |-> BaseDir, stem |-> <<"a", "-", "b">>]}

K_path == [dir |-> BaseDir, stem |-> <<"k">>]

\* the pieces the generated files are made of
Tokens == {<<"K">>, <<" ">>, <<"{">>, <<"}">>, <<"(">>, <<")">>, <<";">>, <<":">>,
           <<",">>, S_public}

\* the pieces of the generated files that hold comments, directives and literals
LiteralTokens == {<<"#">>, <<"/", "*">>, <<"*", "/">>, <<"/", "/">>, <<NL>>, <<"\"">>,
                  <<"'">>, <<"x">>, <<"\\">>, <<"R", "\"", "(">>, <<")", "\"">>}

\* what a generated file starts with
Contexts == {<<>>, <<"c", "l", "a", "s", "s", " ", "K", "{">>,
             <<"c", "l", "a", "s", "s", " ", "K", "{", "K", "(", ")">>}

\* the most tokens after the context of a generated file
MaxTokens == 3

RECURSIVE Flatten(_)
Flatten(ss) == IF ss = <<>> THEN <<>> ELSE Head(ss) \o Flatten(Tail(ss))

TokenSeqs == UNION {[1..n -> Tokens] : n \in 0..MaxTokens}

Generated == {c \o Flatten(t) : c \in Contexts, t \in TokenSeqs}

LiteralSeqs == UNION {[1..n -> LiteralTokens] : n \in 0..MaxTokens}

GeneratedLiterals == {Flatten(t) : t \in LiteralSeqs}


\* the constructors with an initialisation list: class K { K() :\n <list>\n { } int x; };
Members == {<<"x", "{", "0", "}">>, <<"y", "(", "1", ")">>}
Separators == {<<",", NL, " ">>, <<",", " ">>}

\* the most member initialisers of a generated initialisation list
MaxMembers == 3

RECURSIVE Join(_, _)
Join(ms, sep) ==
    IF Len(ms) = 1 THEN ms[1] ELSE ms[1] \o sep \o Join(Tail(ms), sep)

InitLists == {Join(ms, sep) : ms \in UNION {[1..n -> Members] : n \in 1..MaxMembers},
                              sep \in Separators}

\* member initialisers with nested parentheses and braces
NestedInits == {<<"x", "(", "f", "(", "1", ")", ")">>,
                <<"x", "{", "f", "(", "1", ")", "}">>,
                <<"x", "(", "{", "1", "}", ")">>,
                <<"x", "{", "{", "1", "}", ",", " ", "2", "}">>}

\* class K { K() :\n 
T_ctor_head ==
    <<"c", "l", "a", "s", "s", " ", "K", " ", "{", " ", "K", "(", ")", " ",
      ":", NL, " ">>

\* { }
T_ctor_body ==
    <<"{", " ", "}">>

\*  int x; };
T_ctor_tail ==
    <<" ", "i", "n", "t", " ", "x", ";", " ", "}", ";">>

CtorCodes == {pre \o T_ctor_head \o l \o <<NL, " ">> \o T_ctor_body \o T_ctor_tail :
                 pre \in Prefixes, l \in InitLists \cup NestedInits}

\* the pieces of the files with namespaces: what opens and closes them, and
\* declarations that open nothing
GuardTokens ==
    {<<"n", "a", "m", "e", "s", "p", "a", "c", "e", " ", "a", " ", "{">>,
     <<"n", "a", "m", "e", "s", "p", "a", "c", "e", " ", "b", " ", "{">>,
     <<"}">>,
     <<"u", "s", "i", "n", "g", " ", "n", "a", "m", "e", "s", "p", "a", "c", "e", " ", "s", "t", "d", ";">>,
     <<"c", "l", "a", "s", "s", " ", "C", ";">>,
     <<"c", "l", "a", "s", "s", " ", "K", " ", "{">>,
     <<"i", "n", "t", " ", "x", ";">>}

\* the most pieces of a file with namespaces
MaxGuardTokens == 3

GuardCodes ==
    {Join(t, <<" ">>) : t \in UNION {[1..n -> GuardTokens] : n \in 1..MaxGuardTokens}}

\* what precedes an access modifier in a class body
AccessDecls ==
    {<<>>,
     <<"i", "n", "t", " ", "y", ";", " ">>,
     <<"v", "o", "i", "d", " ", "f", "(", ")", ";", " ">>,
     <<"K", "(", ")", ";", " ">>,
     <<"~", "K", "(", ")", ";", " ">>,
     <<"K", "(", ")", " ", "{", " ", "}", " ">>,
     <<"p", "u", "b", "l", "i", "c", ":", " ">>}

AccessKeywords == {S_public, S_protected, S_private}

\* class K { <declaration> <keyword>: int x; };  and the same for a struct
AccessCodes ==
    {kind \o <<" ", "K", " ", "{", " ">> \o d \o k
          \o <<":", " ", "i", "n", "t", " ", "x", ";", " ", "}", ";">> :
        kind \in {S_class, S_struct}, d \in AccessDecls, k \in AccessKeywords}

\* class K { int f() 
T_function_head ==
    <<"c", "l", "a", "s", "s", " ", "K", " ", "{", " ", "i", "n", "t", " ",
      "f", "(", ")", " ">>

\* the bodies of the generated member function
FunctionBodies ==
    {<<"{", "}">>,
     <<"{", " ", "}">>,
     <<"{", " ", "i", "f", " ", "(", "a", ")", " ", "{", " ", "b", ";", " ", "}", " ", "}">>,
     <<"{", "{", "}", "}">>,
     <<"{", " ", "{", " ", "}", " ", "{", " ", "}", " ", "}">>}

\* what follows the body up to the end of the class
FunctionTails ==
    {<<"}", ";">>,
     <<" ", "}", ";">>,
     <<" ", "i", "n", "t", " ", "x", ";", " ", "}", ";">>,
     <<"i", "n", "t", " ", "x", ";", "}", ";">>}

FunctionCodes ==
    {pre \o T_function_head \o b \o t :
        pre \in Prefixes, b \in FunctionBodies, t \in FunctionTails}

\* a call in the body of a constructor, a destructor and a member function:
\* class K { <head> { g(1); } };
BodyHeads == {<<"K", "(", ")">>,
              <<"~", "K", "(", ")">>,
              <<"i", "n", "t", " ", "f", "(", ")">>}

BodyCallCodes ==
    {<<"c", "l", "a", "s", "s", " ", "K", " ", "{", " ">> \o h \o <<" ", "{", " ", "g", "(", "1", ")", ";", " ", "}", " ", "}", ";">> : h \in BodyHeads}

\* a directive line with a comment: [int y;\n]#d <comment>\nint x;
DirectiveComments ==
    {<<"/", "*", " ", "c", " ", "*", "/">>,
     <<"/", "*", " ", "c", " ", "*", "/", " ", "1">>,
     <<"/", "*", "*", "/">>,
     <<"/", "*", NL, " ", "c", " ", "*", "/">>,
     <<"/", "*", " ", "c", NL, "*", "/">>,
     <<"/", "*", " ", "a", " ", "*", "/", " ", "/", "*", NL, " ", "b", " ", "*", "/">>,
     <<"/", "*", "/", NL, "*", "/">>}

DirectiveCodes ==
    {pre \o <<"#", "d", " ">> \o c \o <<NL, "i", "n", "t", " ", "x", ";">> :
        pre \in {<<>>, <<"i", "n", "t", " ", "y", ";", NL>>}, c \in DirectiveComments}

\* balanced files with two adjacent '{' and separated '}'
MergedGroupCodes ==
    {<<NL, "{", "{", "}", " ", "}">>,
     <<"i", "n", "t", " ", "x", ";", " ", "{", "{", "}", " ", "}">>,
     <<NL, "c", "l", "a", "s", "s", " ", "K", " ", "{", "{", "}", " ", "}", ";">>}

\* literals, comments and directives that hold structural characters
Literals ==
    {<<"\"", "a", "{", "b", "(", ";", ":", ",", "}", ")", "\"">>,
     <<"\"", "\\", "\"", "{", "\"">>,
     <<"'", "{", "'">>,
     <<"'", "(", "'">>,
     <<"'", "\\", "'", "'">>,
     <<"R", "\"", "D", "(", "a", "{", ";", ")", "D", "\"">>,
     <<"R", "\"", "(", "}", ")", "\"">>,
     <<"/", "*", " ", "{", " ", "(", " ", ";", " ", "*", "/">>,
     <<"/", "/", " ", "}", " ", ")", " ", ":", " ", ",">>,
     <<"#", "d", " ", "(", " ", "{", " ", ";">>}

\* a directive with a closed comment and a second comment that ends on the
\* next line and holds a '{'
T_directive_comments ==
    <<"#", "d", " ", "/", "*", " ", "a", " ", "*", "/", " ", "/", "*", NL, " ", "{", " ", "*", "/">>

\* int x; <literal>\n;
T_literal_head == <<"i", "n", "t", " ", "x", ";", " ">>
T_literal_tail == <<NL, ";">>

LiteralCodes == {T_literal_head \o l \o T_literal_tail : l \in Literals}

LiteralRunCodes == {T_literal_head \o T_directive_comments \o T_literal_tail}

\* files with a comment that is opened and never closed
UnterminatedCodes ==
    {<<"i", "n", "t", " ", "x", ";", NL, "/", "*", " ", "0", "1", "2", "3", "4", "5", "6", "7", "8", "9", "0", "1", "2", "3", "4", "5", "6", "7", "8", "9", "0", "1", "2", "3", "4", "5", "6", "7", "8", "9", "0">>,
     <<"a", NL, "b", NL, "/", "*", " ", "c", NL, " ", "d">>,
     <<"#", "d", "e", "f", "i", "n", "e", " ", "X", " ", "/", "*", NL, " ", "y">>,
     <<"#", "d", "e", "f", "i", "n", "e", " ", "X", " ", "/", "*", " ", "y">>,
     <<"#", " ", "/", "*", " ", "a", " ", "*", "/", " ", "/", "*", NL, "z">>,
     <<"i", "n", "t", " ", "x", ";", " ", "/", "*", " ", "a", " ", "*", "/", " ", "/", "*", " ", "b", NL, NL>>}

Files ==
    {[path |-> p, code |-> pre \o sc] : p \in Paths, pre \in Prefixes, sc \in Scenarios}
    \cup {[path |-> p, code |-> In_comment] : p \in Paths}
    \cup {[path |-> K_path, code |-> c] :
             c \in CtorCodes \cup Generated \cup GeneratedLiterals \cup GuardCodes
                   \cup AccessCodes \cup FunctionCodes \cup UnterminatedCodes
                   \cup BodyCallCodes \cup DirectiveCodes
                   \cup MergedGroupCodes \cup LiteralCodes \cup LiteralRunCodes}

(***************************************************************************)
(* The directories the tool is run on                                      *)
(***************************************************************************)
Directory(status, entries, fails_at) ==
    [status |-> status, entries |-> entries, fails_at |-> fails_at]

\* a directory entry: its path, its bytes, and whether it is a regular .cppx file
Entry(path, code, cppx) == [path |-> path, code |-> code, cppx |-> cppx]

\* the files of the directories with several entries: two that split, one with
\* an extra '}', one with an open comment, one that is a comment only, one that
\* is empty, and one that is no .cppx file
In_good == <<NL, "i", "n", "t", " ", "x", ";", NL>>
In_extra_brace == <<"i", "n", "t", " ", "x", ";", " ", "}", NL>>
In_open_comment == <<"i", "n", "t", " ", "x", ";", NL, "/", "*", " ", "c", NL>>

In_class == <<NL, "c", "l", "a", "s", "s", " ", "K", " ", "{", " ", "K", "(", ")", " ", "{", " ", "}", " ", "}", ";">>

DriverEntries ==
    {[code |-> In_good, cppx |-> TRUE],
     [code |-> In_class, cppx |-> TRUE],
     [code |-> <<>>, cppx |-> TRUE],
     [code |-> In_extra_brace, cppx |-> TRUE],
     [code |-> In_open_comment, cppx |-> TRUE],
     [code |-> In_comment, cppx |-> TRUE],
     [code |-> In_good, cppx |-> FALSE]}

\* the most entries of a directory
MaxFiles == 3

\* the k-th entry of a directory is named f, ff, fff, ...
Listing(es) ==
    [k \in 1..Len(es) |->
        Entry([dir |-> BaseDir, stem |-> [j \in 1..k |-> "f"]], es[k].code, es[k].cppx)]

\* the directories with up to MaxFiles entries, and the ones that are none
Listed ==
    {Directory(st, <<>>, 0) : st \in {"missing", "not_directory", "no_access"}}
    \cup UNION {{Directory("directory", Listing(es), k) : k \in 0..(Len(es) + 1)} :
                  es \in UNION {[1..n -> DriverEntries] : n \in 0..MaxFiles}}

Directories ==
    {Directory("directory", <<Entry(f.path, f.code, TRUE)>>, 0) : f \in Files}
    \cup Listed

(***************************************************************************)
(* The specification                                                       *)
(***************************************************************************)
Init ==
    /\ base_dir \in Directories
    /\ files_to_process = <<>>
    /\ file = 0
    /\ error_code = <<>>
    /\ console = <<>>
    /\ filename = NoPath
    /\ input = <<>>
    /\ pc = "start"
    /\ iterator = [pos |-> 1, line |-> 1]
    /\ code_blocks = <<>>
    /\ containers = <<Container(<<>>, "none", 0)>>
    /\ next_container = "none"
    /\ last_identifier = <<>>
    /\ container_name = <<>>
    /\ error = NoError
    /\ code_block = 0
    /\ e_containers = <<>>
    /\ e_next_container = "none"
    /\ include_guard = <<>>
    /\ function = <<>>
    /\ function_name = <<>>
    /\ identifier = <<>>
    /\ buffer = <<>>
    /\ header_file = <<>>
    /\ cpp_file = <<>>
    /\ code_writer = NoWriter

Next ==
    \/ GenerateCode
    \/ GetFilesToProcess
    \/ GenerateFileCode
    \/ Return
    \/ ParserLoop
    \/ ParserThrow
    \/ ParserEnd
    \/ NoCode
    \/ Prologue
    \/ MainLoop
    \/ ProcessContainer
    \/ Signature
    \/ FunctionBody
    \/ Epilogue
    \/ PastTheEnd
    \/ Undefined

Spec == Init /\ [][Next]_vars

(***************************************************************************)
(* Properties                                                              *)
(***************************************************************************)
Text(stream) == [k \in 1..Len(stream) |-> stream[k].ch]
Srcs(stream) == {stream[k].src : k \in 1..Len(stream)} \ {0}
Contains(text, pat) ==
    \E i \in 1..(Len(text) - Len(pat) + 1) : SubSeq(text, i, i + Len(pat) - 1) = pat
HasBlock(type) == \E k \in 1..Len(code_blocks) : code_blocks[k].type = type

\* the lexer returned normally: CodeBlocks() is the final block sequence
Lexed == error = NoError /\ pc \notin {"start", "scan", "files", "parse"}

\* C2: when lexing succeeds, the byte ranges of the blocks of CodeBlocks(),
\* concatenated in order, are the whole input, and every byte of the input lies
\* in exactly one block
C2_BlocksReproduceInput ==
    Lexed =>
        /\ Flatten([k \in 1..Len(code_blocks) |-> ToString(code_blocks[k])]) = input
        /\ \A p \in 1..Len(input) :
              Cardinality({k \in 1..Len(code_blocks) :
                              code_blocks[k].begin <= p /\ p <= code_blocks[k].end}) = 1

\* C2 witness: a lexed input with a block merged by MergeCodeBlocks (a '{' that
\* absorbed the white space before it) and a block extended by the
\* extend-previous path (an initialisation list of several bytes)
C2_Witness ==
    /\ Lexed
    /\ \E k \in 1..Len(code_blocks) :
          code_blocks[k].type = "begin_group" /\ Size(code_blocks[k]) > 1
    /\ \E k \in 1..Len(code_blocks) :
          code_blocks[k].type = "initialization_list" /\ Size(code_blocks[k]) > 1

\* C3: after every InsertCodeBlock the block vector is strictly increasing in begin,
\* every block has begin <= end, and every block begins right after the previous
\* block ends
C3_BlocksContiguous ==
    /\ \A k \in 1..Len(code_blocks) : code_blocks[k].begin <= code_blocks[k].end
    /\ \A k \in 1..(Len(code_blocks) - 1) :
          /\ code_blocks[k].begin < code_blocks[k + 1].begin
          /\ code_blocks[k + 1].begin = code_blocks[k].end + 1

\* C3 witness: in the middle of lexing, InsertCodeBlock has just stored a block
\* behind a gap block and earlier blocks
C3_Witness ==
    /\ pc = "parse"
    /\ Len(code_blocks) >= 3
    /\ code_blocks[Len(code_blocks) - 1].type = "other"
    /\ Value(iterator) /= NUL

\* int f();
P_f_declaration ==
    <<"i", "n", "t", " ", "f", "(", ")", ";">>

\* { return 1; }
P_f_body ==
    <<"{", " ", "r", "e", "t", "u", "r", "n", " ", "1", ";", " ", "}">>

\* int C::f() { return 1; }
P_f_definition ==
    <<"i", "n", "t", " ", "C", ":", ":", "f", "(", ")", " ", "{", " ", "r",
      "e", "t", "u", "r", "n", " ", "1", ";", " ", "}">>

\* a::b::K::K() : x(0) {}
P_K_definition ==
    <<"a", ":", ":", "b", ":", ":", "K", ":", ":", "K", "(", ")", " ", ":",
      " ", "x", "(", "0", ")", " ", "{", "}">>

\* ~K();
P_dtor_declaration ==
    <<"~", "K", "(", ")", ";">>

\* K::~K() { }
P_dtor_definition ==
    <<"K", ":", ":", "~", "K", "(", ")", " ", "{", " ", "}">>

\* C();
P_C_declaration ==
    <<"C", "(", ")", ";">>

\* void f();
P_void_f_declaration ==
    <<"v", "o", "i", "d", " ", "f", "(", ")", ";">>


WithPrefix(code) == {pre \o code : pre \in Prefixes}

AddedText(stream) == Text(SelectSeq(stream, LAMBDA x : x.src = 0))
IsPrefixOf(a, b) == Len(a) <= Len(b) /\ SubSeq(b, 1, Len(a)) = a

GuardLines(g) == T_ifndef \o g \o <<NL>> \o T_define \o g \o <<NL, NL>>
IncludeLine(path) == T_include \o HeaderFilename(path) \o <<"\"", NL, NL>>
EndifLines(g) == <<NL, NL>> \o T_endif \o g \o <<NL, NL>>

\* the function headers written to both streams: the relocated ones
RelocatedHeaders ==
    {k \in 1..Len(code_blocks) :
        /\ code_blocks[k].type \in {"function_name", "constructor_destructor"}
        /\ code_blocks[k].begin \in Srcs(header_file) \cap Srcs(cpp_file)}

\* C1: on a successful run every non-whitespace byte of the input is written to
\* the interface or the implementation, and the only bytes added are the guard
\* lines, the #include line, one ';' per relocated function header and the scope
\* prefixes
C1_NothingLostNothingAdded ==
    pc = "done" /\ code_blocks /= <<>> =>
        /\ \A p \in 1..Len(input) :
              ~isspace(input[p]) => p \in Srcs(header_file) \cup Srcs(cpp_file)
        /\ AddedText(header_file) =
              GuardLines(include_guard)
              \o [k \in 1..Cardinality(RelocatedHeaders) |-> ";"]
              \o EndifLines(include_guard)
        /\ IsPrefixOf(IncludeLine(filename), AddedText(cpp_file))

\* C4: for a member function defined with a body inside class C the interface gets
\* the return type and the signature followed by ';' and none of the body, and the
\* implementation gets the return type, 'C::', the signature and the whole body
C4_MemberFunctionRelocated ==
    pc = "done" /\ input \in WithPrefix(In_member) =>
        LET body == FindAny(1, P_f_body)
        IN  /\ Contains(Text(header_file), P_f_declaration)
            /\ \A p \in body..(body + Len(P_f_body) - 1) : p \notin Srcs(header_file)
            /\ Contains(Text(cpp_file), P_f_definition)

\* C5: the scope prefix of a relocated definition names every named namespace and
\* class that encloses it, outermost first: a::b::K::K() : x(0) {}
C5_ScopePrefixComplete ==
    pc = "done" /\ input \in WithPrefix(In_nested) =>
        Contains(Text(cpp_file), P_K_definition)

\* the bytes of a generated constructor: the ':' of its list, the '}' of its body
CtorColon == FindAny(1, <<":">>)
CtorClose == FindAny(1, T_ctor_body) + Len(T_ctor_body) - 1
CtorName == FindAny(1, <<"K", "(">>)

\* C6: every byte from the ':' of a constructor's initialisation list (several
\* lines, brace-initialised and parenthesised members) through the '}' that closes
\* the constructor body goes to the implementation only; the interface gets the
\* signature and then ';'
C6_InitListToImplementation ==
    pc = "done" /\ input \in CtorCodes =>
        /\ \A p \in CtorColon..CtorClose :
              p \in Srcs(cpp_file) /\ p \notin Srcs(header_file)
        /\ \E i \in 1..(Len(header_file) - 1) :
              /\ header_file[i].src = CtorColon - 1
              /\ header_file[i + 1] = [src |-> 0, ch |-> ";"]
              /\ \A p \in CtorName..(CtorColon - 1) :
                    header_file[i - (CtorColon - 1 - p)].src = p

\* C6 witness: a finished run on a constructor whose list spans several lines and
\* has a brace-initialised and a parenthesised member
C6_Witness ==
    /\ pc = "done"
    /\ input \in CtorCodes
    /\ \E k \in 1..Len(code_blocks) :
          /\ code_blocks[k].type = "initialization_list"
          /\ Contains(ToString(code_blocks[k]), <<"x", "{", "0", "}", ",", NL>>)
          /\ Contains(ToString(code_blocks[k]), <<"y", "(", "1", ")">>)
          /\ code_blocks[k].end \in Srcs(cpp_file)

\* C7: for the destructor ~K() { } of class K the interface gets ~K(); and the
\* implementation gets K::~K() { }
C7_DestructorPrefixBeforeTilde ==
    pc = "done" /\ input \in WithPrefix(In_dtor) =>
        /\ Contains(Text(header_file), P_dtor_declaration)
        /\ Contains(Text(cpp_file), P_dtor_definition)

\* the bytes of the leading comment, when the first block is one
LeadingComment ==
    IF code_blocks /= <<>> /\ code_blocks[1].type = "comment"
    THEN Copied(code_blocks[1]) ELSE <<>>

\* C8: with no function body in the input the implementation is the leading
\* comment (if any) and the #include line, and every other block goes to the
\* interface only, which so holds the full class with C(); and void f();
C8_DeclarationsToInterfaceOnly ==
    pc = "done" /\ input \in WithPrefix(In_declarations) =>
        /\ cpp_file = LeadingComment \o Added(IncludeLine(filename))
        /\ \A p \in (Len(LeadingComment) + 1)..Len(input) :
              p \in Srcs(header_file) /\ p \notin Srcs(cpp_file)
        /\ Contains(Text(header_file), P_C_declaration)
        /\ Contains(Text(header_file), P_void_f_declaration)

\* C9: an input that is one leading comment is processed to completion; the
\* interface is the comment, the guard lines and the #endif line, the
\* implementation is the comment and the #include line
C9_CommentOnlyCompletes ==
    input = In_comment =>
        /\ pc \notin {"ub", "crashed", "garbage", "error"}
        /\ pc = "done" =>
              /\ header_file = LeadingComment \o Added(GuardLines(include_guard))
                                  \o Added(EndifLines(include_guard))
              /\ cpp_file = LeadingComment \o Added(IncludeLine(filename))

\* C10: the include guard has only characters of [A-Z0-9_] and does not start
\* with a digit
C10_GuardIsIdentifier ==
    include_guard /= <<>> =>
        /\ \A k \in 1..Len(include_guard) :
              include_guard[k] \in Upper \cup Digit \cup {"_"}
        /\ include_guard[1] \notin Digit

GroupOrTerminator == {"begin_group", "statement_terminator"}

\* the first block after k that is a '{' or a ';', 0 when there is none
OpenerOf(k) ==
    LET after == {j \in (k + 1)..Len(code_blocks) : code_blocks[j].type \in GroupOrTerminator}
    IN  IF after = {} THEN 0 ELSE CHOOSE j \in after : \A i \in after : j <= i

\* block k is a keyword whose declaration opens a body
OpensBody(k) == OpenerOf(k) /= 0 /\ code_blocks[OpenerOf(k)].type = "begin_group"

\* the identifiers of blocks j..(g - 1), each followed by '_'
RECURSIVE NamePart(_, _)
NamePart(j, g) ==
    IF j >= g THEN <<>>
    ELSE (IF code_blocks[j].type = "identifier"
          THEN ToString(code_blocks[j]) \o <<"_">> ELSE <<>>) \o NamePart(j + 1, g)

\* the namespaces of the outermost chain of nested namespaces: those opened with
\* a body while no group has been closed and no class, struct or enum body has
\* been opened
NestingChain ==
    {k \in 1..Len(code_blocks) :
        /\ code_blocks[k].type = "namespace_keyword"
        /\ OpensBody(k)
        /\ \A j \in 1..(k - 1) :
              /\ code_blocks[j].type /= "end_group"
              /\ code_blocks[j].type \in {"class_keyword", "struct_keyword", "enumeration"}
                    => ~OpensBody(j)}

\* 'name_' for every namespace of ks, in the order of the file, from block k on
RECURSIVE NamesOf(_, _)
NamesOf(ks, k) ==
    IF k > Len(code_blocks) THEN <<>>
    ELSE (IF k \in ks THEN NamePart(k + 1, OpenerOf(k)) ELSE <<>>) \o NamesOf(ks, k + 1)

\* C11: the include guard is, uppercased, 'name_' for each namespace of the
\* outermost chain of nested namespaces (outermost first), then the stem and '_H';
\* 'using namespace std;', forward declarations and the namespaces outside the
\* chain add nothing
C11_GuardIsNestingChain ==
    include_guard /= <<>> /\ input \in GuardCodes =>
        include_guard = UpperCased(NamesOf(NestingChain, 1) \o filename.stem \o <<"_", "H">>)

\* the namespaces opened with a body before the first class, struct or enum body
OpenedNamespaces ==
    {k \in 1..Len(code_blocks) :
        /\ code_blocks[k].type = "namespace_keyword"
        /\ OpensBody(k)
        /\ \A j \in 1..(k - 1) :
              code_blocks[j].type \in {"class_keyword", "struct_keyword", "enumeration"}
                    => ~OpensBody(j)}

\* C11 as amended: the include guard is, uppercased, 'name_' for every namespace
\* that is opened with '{' before the first class, struct or enum body, in the
\* order of the file and whether nested or not, then the stem and '_H';
\* 'using namespace std;' and forward declarations add nothing
C11_GuardIsOpenedNamespaces ==
    include_guard /= <<>> /\ input \in GuardCodes =>
        include_guard =
            UpperCased(NamesOf(OpenedNamespaces, 1) \o filename.stem \o <<"_", "H">>)

\* C11 witness: the guard of  namespace a { } namespace b {  is computed, with
\* both namespaces in it
C11_Witness ==
    /\ input = Join(<<<<"n", "a", "m", "e", "s", "p", "a", "c", "e", " ", "a", " ", "{">>,
                      <<"}">>,
                      <<"n", "a", "m", "e", "s", "p", "a", "c", "e", " ", "b", " ", "{">>>>,
                    <<" ">>)
    /\ include_guard = <<"A", "_", "B", "_", "K", "_", "H">>

\* the input has no literal, comment or directive: every brace and parenthesis
\* of it is code
Plain == \A p \in 1..Len(input) : input[p] \notin {"\"", "'", "#", "/", "\\"}

\* the braces and parentheses of the input from p on are balanced and properly
\* nested, given the ones that are open
RECURSIVE Nested(_, _)
Nested(p, open) ==
    IF p > Len(input) THEN open = <<>>
    ELSE IF input[p] \in {"{", "("} THEN Nested(p + 1, Append(open, input[p]))
    ELSE IF input[p] = "}"
    THEN open /= <<>> /\ Back(open) = "{" /\ Nested(p + 1, PopBack(open))
    ELSE IF input[p] = ")"
    THEN open /= <<>> /\ Back(open) = "(" /\ Nested(p + 1, PopBack(open))
    ELSE Nested(p + 1, open)

WellNested == Plain /\ Nested(1, <<>>)

BlocksOf(type) == {k \in 1..Len(code_blocks) : code_blocks[k].type = type}

\* C12: when the braces of the input are balanced and properly nested, the final
\* block sequence has as many begin_group blocks as end_group blocks
C12_GroupBlocksBalanced ==
    Lexed /\ WellNested =>
        Cardinality(BlocksOf("begin_group")) = Cardinality(BlocksOf("end_group"))

UnterminatedComment == "C style comment (/*) does not end (*/)"

\* the 1-based line of position p
LineOf(p) == 1 + Cardinality({q \in 1..(p - 1) : input[q] = NL})

\* the position of the first comment opener from p on that is outside a comment
\* and that no closer follows, 0 when every comment is closed
RECURSIVE OpenComment(_)
OpenComment(p) ==
    IF p > Len(input) THEN 0
    ELSE IF StartsWith(p, <<"/", "*">>)
    THEN LET close == FindAny(p + 2, <<"*", "/">>)
         IN  IF close = 0 THEN p ELSE OpenComment(close + 2)
    ELSE OpenComment(p + 1)

\* the input has no string or character literal and no line comment, so that a
\* comment opener that is not inside a comment starts a comment
NoLiterals ==
    /\ \A p \in 1..Len(input) : input[p] \notin {"\"", "'", "\\"}
    /\ \A p \in 1..Len(input) : ~StartsWith(p, <<"/", "/">>)

\* C13: an input with a '/*' that is never closed (also on the line of a
\* directive) fails with the unterminated-comment error; the line reported is the
\* line the '/*' starts on, and the excerpt starts at the '/*', has at most 28
\* bytes and no newline
C13_UnterminatedCommentReported ==
    /\ NoLiterals /\ OpenComment(1) /= 0 /\ pc /= "parse" =>
          error.what = UnterminatedComment
    /\ error.what = UnterminatedComment =>
          LET excerpt == CodeContainingError(error)
          IN  /\ error.pos = OpenComment(1)
              /\ error.line = LineOf(error.pos)
              /\ StartsWith(error.pos, excerpt)
              /\ Len(excerpt) >= 2
              /\ Len(excerpt) <= NUMBER_CHARS_CODE_CONTAINING_ERROR
              /\ \A k \in 1..Len(excerpt) : excerpt[k] /= NL
              /\ console /= <<>>
              /\ Back(console) = Report("error", UnterminatedComment, filename,
                                        LineOf(error.pos), excerpt)

\* #include "<stem>.h"
IncludeStemLine(path) == T_include \o path.stem \o <<".", "h", "\"", NL, NL>>

\* C14: the line the prologue writes to the implementation is #include "<stem>.h"
\* with the stem of the input file only, also for a file in a subdirectory
C14_IncludeNamesStemOnly ==
    include_guard /= <<>> =>
        IsPrefixOf(LeadingComment \o Added(IncludeStemLine(filename)), cpp_file)

\* the base directory does not exist, is not a directory, or cannot be accessed:
\* exists() throws, or the directory cannot be opened to list it
Inaccessible == base_dir.status /= "directory" \/ base_dir.fails_at = 1

\* C15: GenerateCode returns 1 when the base directory does not exist, is not a
\* directory or cannot be accessed, and in every other run it returns 0, whatever
\* the files do
C15_ReturnsOneOnlyForDirectory ==
    /\ pc = "returned" => error_code = <<IF Inaccessible THEN ERROR_RESULT ELSE OK_RESULT>>
    /\ pc \notin {"ub", "crashed", "garbage"}

\* the files loop takes the files of files_to_process one by one, in their order
NextFileInOrder ==
    file' /= file =>
        /\ file' = file + 1
        /\ filename' = files_to_process[file'].path
        /\ input' = files_to_process[file'].code
        /\ pc' = "parse"

\* the step after the lexer's error: the next file, or the return after the last
GoesOnAfterError ==
    pc = "error" =>
        IF file < Len(files_to_process)
        THEN file' = file + 1
        ELSE pc' = "returned" /\ error_code' = <<OK_RESULT>>

\* the lexer's error was reported and the files loop can take its next step
ReportedAndNotStopped ==
    pc = "error" =>
        /\ Back(console) = ErrorReport(filename, error)
        /\ IF file < Len(files_to_process) THEN ENABLED GenerateFileCode
                                           ELSE ENABLED Return

\* the lexer raised an error in one of the files
LexerErrorReported ==
    \E k \in 1..Len(console) :
        console[k].stream = "error" /\ console[k].filename /= NoPath

\* the run is over: GenerateCode returned, or the process was ended
RunEnded == pc \in {"returned", "crashed", "garbage"}

\* when the run is over after a lexer error, the files loop has taken every file
AllFilesProcessed == LexerErrorReported /\ RunEnded => file = Len(files_to_process)

\* C16: when the lexer raises an error in a file, the error is reported and the
\* run is not stopped: the files loop can take its next step, the step it takes
\* starts the next file of files_to_process (or returns 0 after the last), the
\* loop takes the files one by one in list order, none skipped or repeated, and
\* the run does not end before the loop has taken every file
C16_LexerErrorDoesNotStopRun ==
    /\ []ReportedAndNotStopped
    /\ []AllFilesProcessed
    /\ [][NextFileInOrder /\ GoesOnAfterError]_vars

\* the '{' that opens the body of f in a file of FunctionCodes: the second '{'
FunctionOpen ==
    CHOOSE p \in 1..Len(input) :
        /\ input[p] = "{"
        /\ Cardinality({q \in 1..(p - 1) : input[q] = "{"}) = 1

\* the number of '{' less the number of '}' in input[from..to]
Depth(from, to) ==
    Cardinality({q \in from..to : input[q] = "{"})
        - Cardinality({q \in from..to : input[q] = "}"})

\* the '}' that matches the '{' at position open
Matching(open) ==
    CHOOSE p \in open..Len(input) :
        /\ Depth(open, p) = 0
        /\ \A q \in open..(p - 1) : Depth(open, q) > 0

\* C17: of a member function defined in a class, every byte from the '{' that
\* starts the relocation to the '}' that matches it is written to the
\* implementation and not to the interface; once the main loop dispatches
\* again the function frame has been popped, and every byte after the matching
\* '}' (the rest of the class) is written to the interface and not to the
\* implementation
C17_RelocationEndsAtMatchingBrace ==
    input \in FunctionCodes =>
        LET open == FunctionOpen
            close == Matching(open)
        IN  /\ pc \in {"main", "done"} =>
                \A k \in 1..Len(e_containers) : e_containers[k].type /= "function"
            /\ pc = "done" =>
                /\ \A p \in open..close :
                       p \in Srcs(cpp_file) /\ p \notin Srcs(header_file)
                /\ \A p \in (close + 1)..Len(input) :
                       p \in Srcs(header_file) /\ p \notin Srcs(cpp_file)

\* C18: on an input whose braces and parentheses are balanced and properly
\* nested the lexer raises neither the extra-'}' error nor the extra-')' error
C18_NoExtraCloserOnBalanced ==
    WellNested =>
        error.what \notin {"An extra '}' was found. Perhaps you forgot a '{'",
                           "An extra ')' was found. Perhaps you forgot a '('"}

\* C19: the emitter's cursor is never beyond cend, and wherever a loop of
\* GenerateFileCode is about to increment it (the main loop, ProcessContainer,
\* the signature sub-walk, the body loop) it is before cend, so that the
\* increment does not step beyond cend and the block read is one of code_blocks
C19_CursorWithinBlocks ==
    /\ code_block <= cend
    /\ pc \in {"main", "container", "signature", "function"} => code_block < cend

\* the access keyword k is at position p of the input, followed by a single ':'
ModifierAt(p, k) ==
    /\ StartsWith(p, k \o <<":">>)
    /\ input[p - 1] = " "
    /\ input[p + Len(k) + 1] /= ":"

\* C20: in a class or struct body, once the lexer is past the ':' of 'public:',
\* 'protected:' or 'private:' the keyword and the colon are one access_modifier
\* block, whatever declaration precedes them, and no initialization_list
\* container has been pushed for the colon
C20_AccessModifierIsOneBlock ==
    input \in AccessCodes =>
        \A p \in 2..Len(input) : \A k \in AccessKeywords :
            ModifierAt(p, k) /\ iterator.pos > p + Len(k) =>
                /\ \E j \in 1..Len(code_blocks) :
                       code_blocks[j] = CodeBlock("access_modifier", p, p + Len(k))
                /\ \A c \in 1..Len(containers) :
                       containers[c].type /= "initialization_list"

\* C21: during lexing the line number of the cursor is 1 plus the number of
\* '\n' bytes strictly before the cursor, it is never below 1, and advancing
\* n bytes from the cursor and moving back n bytes restores the cursor and its
\* line number
C21_LineCountsNewlinesBefore ==
    /\ iterator.line = LineOf(iterator.pos)
    /\ iterator.line >= 1
    /\ \A n \in 0..Len(input) :
          Advance(iterator, n).pos = iterator.pos + n =>
              MoveBack(Advance(iterator, n), n) = iterator

\* the cursor is inside the body of a function, a constructor or a destructor
InBody ==
    \E c \in 1..Len(containers) :
        containers[c].type \in {"function", "constructor_destructor"}

\* a step of the lexer turns an identifier block into a function_name or a
\* constructor_destructor block
Promotes ==
    \E j \in 1..Len(code_blocks) : \E k \in 1..Len(code_blocks') :
        /\ code_blocks[j].type = "identifier"
        /\ code_blocks'[k].begin = code_blocks[j].begin
        /\ code_blocks'[k].type \in {"function_name", "constructor_destructor"}

NoPromotionInBody ==
    pc = "parse" /\ pc' = "parse" /\ InBody =>
        /\ ~Promotes
        /\ Value(iterator) = "(" => next_container' = next_container

\* C22: no step of the lexer taken inside the body of a function, a constructor
\* or a destructor promotes an identifier to function_name or
\* constructor_destructor, and a '(' inside such a body leaves next_container
\* as it is
C22_NoPromotionInBody == [][NoPromotionInBody]_vars

\* in a file of DirectiveCodes: the '#' of the directive, the first comment
\* opener of its line, and whether a comment closer follows it on the line
DirectiveStart == FindAny(1, <<"#">>)
DirectiveComment == FindOnLine(DirectiveStart + 1, <<"/", "*">>)
ClosedOnLine == FindOnLine(DirectiveComment + 2, <<"*", "/">>) /= 0

\* the directive block ends just before the comment opener and a comment block
\* begins at it
SplitAtComment ==
    \E j \in 1..(Len(code_blocks) - 1) :
        /\ code_blocks[j].type = "directive"
        /\ code_blocks[j].begin <= DirectiveStart
        /\ code_blocks[j].end = DirectiveComment - 1
        /\ code_blocks[j + 1].type = "comment"
        /\ code_blocks[j + 1].begin = DirectiveComment

\* the directive block runs over the comment to the end of the line
WholeLine ==
    \E j \in 1..Len(code_blocks) :
        /\ code_blocks[j].type = "directive"
        /\ code_blocks[j].begin <= DirectiveStart
        /\ code_blocks[j].end = DotRunEnd(DirectiveStart) - 1

\* C23 as stated: for a directive line that contains a comment opener the
\* directive block ends at the byte before the opener and the comment is a
\* comment block of its own, closed on the line or not
C23_DirectiveEndsBeforeComment ==
    Lexed /\ input \in DirectiveCodes => SplitAtComment

\* C23 amended: when no comment closer follows the opener on the directive's
\* line, the directive block ends at the byte before the opener and the comment
\* is a comment block of its own; when one follows, the directive block runs to
\* the end of the line, the comment inside it
C23_DirectiveEndsBeforeOpenComment ==
    Lexed /\ input \in DirectiveCodes =>
        IF ClosedOnLine THEN WholeLine /\ ~SplitAtComment ELSE SplitAtComment

\* C23 witness: a lexed directive line whose comment ends on a later line, split
\* into a directive block and a comment block that holds the newline
C23_Witness ==
    /\ Lexed
    /\ input \in DirectiveCodes
    /\ ~ClosedOnLine
    /\ SplitAtComment
    /\ \E j \in 1..Len(code_blocks) :
          /\ code_blocks[j].type = "comment"
          /\ code_blocks[j].begin = DirectiveComment
          /\ \E q \in code_blocks[j].begin..code_blocks[j].end : input[q] = NL

\* C24 as stated: the two streams are open while the file is lexed, and
\* closed when the processing of the file has ended, by completion or by a
\* lexer error
C24_StreamsOpenWhileLexing ==
    /\ pc = "parse" => code_writer = "open"
    /\ pc \in {"done", "error"} => code_writer = "closed"

\* C24 amended: the streams are not open while the file is lexed; they are
\* opened, empty, after the lexer has returned at least one block and before
\* the first write, stay open while the emitter runs and are flushed and
\* closed when it has finished; after a lexer error, and for a file without
\* code, they were never opened and nothing was written
C24_StreamsOpenedAfterLexing ==
    /\ pc \in {"parse", "parsed", "error"} \/ (pc = "done" /\ code_blocks = <<>>) =>
          code_writer = "none" /\ header_file = <<>> /\ cpp_file = <<>>
    /\ pc \in {"main", "container", "signature", "function"} => code_writer = "open"
    /\ pc = "done" /\ code_blocks /= <<>> => code_writer = "closed" /\ buffer = <<>>
    /\ code_writer = "none" => header_file = <<>> /\ cpp_file = <<>> /\ buffer = <<>>

\* C24 witness: a file has been processed to completion: its streams were
\* opened after the lexer returned, written, flushed and closed, after an
\* earlier file of the run ended in a lexer error without streams
C24_Witness ==
    /\ pc = "done"
    /\ code_writer = "closed"
    /\ cpp_file /= <<>>
    /\ header_file /= <<>>
    /\ buffer = <<>>
    /\ \E k \in 1..Len(console) : console[k].stream = "error"

\* C25: in every state of the lexer, whatever the input, the container stack
\* has at least one frame and its bottom frame is the sentinel of type none
C25_SentinelNeverPopped ==
    /\ Len(containers) >= 1
    /\ containers[1].type = "none"
    /\ containers[1].name = <<>>

\* C25 witness: a '}' has closed a group and popped its container, a further
\* '}' has found the sentinel alone with no open brace and raised the error
C25_Witness ==
    /\ pc = "error"
    /\ error.what = "An extra '}' was found. Perhaps you forgot a '{'"
    /\ HasBlock("end_group")
    /\ HasBlock("class_keyword")
    /\ Len(containers) = 1

\* the top container is an initialization_list and the lexer is on a '}' or a
\* ')' that leaves both its counts at zero
ClosesInitializationList ==
    /\ Back(containers).type = "initialization_list"
    /\ \/ Value(iterator) = "}" /\ Back(containers).braces = 1
                                 /\ Back(containers).parenthesis = 0
       \/ Value(iterator) = ")" /\ Back(containers).parenthesis = 1
                                 /\ Back(containers).braces = 0

\* a step of the lexer pops an initialization_list container
PopsInitializationList ==
    /\ Back(containers).type = "initialization_list"
    /\ containers' = PopBack(containers)

\* a step of the lexer pops an initialization_list container exactly when it
\* is on a '}' or ')' that leaves both counts at zero
InitializationListPopRule ==
    pc = "parse" => (PopsInitializationList <=> ClosesInitializationList)

\* in a file of CtorCodes: the '{' that opens the body of the constructor
CtorBodyOpen == Len(input) - Len(T_ctor_tail) - Len(T_ctor_body) + 1

\* from the moment the lexer is on the '{' of the constructor body, no
\* initialization_list container is on the stack
PoppedBeforeBody ==
    input \in CtorCodes /\ pc = "parse" /\ iterator.pos >= CtorBodyOpen =>
        \A c \in 1..Len(containers) : containers[c].type /= "initialization_list"

C27_EmitterSentinelAndCounters ==
    /\ pc \in {"main", "container", "signature", "function"} => e_containers /= <<>>
    /\ e_containers /= <<>> => e_containers[1].type = "none"
    /\ \A k \in 1..Len(e_containers) : e_containers[k].braces >= 0

\* in a file of LiteralCodes or LiteralRunCodes: the first and the last byte of
\* the literal
LiteralBegin == Len(T_literal_head) + 1
LiteralEnd == Len(input) - Len(T_literal_tail)

\* C28: while the lexer is in a string literal, a character literal, a comment
\* or a directive, and when it has left it, the container stack, its counters
\* and next_container are what they were before it, whatever structural
\* characters the literal holds, and no block begins inside the literal
C28_LiteralsLeaveContainersAlone ==
    /\ input \in LiteralCodes \cup LiteralRunCodes /\ iterator.pos <= LiteralEnd + 1 =>
          /\ containers = <<Container(<<>>, "none", 0)>>
          /\ next_container = "none"
    /\ input \in LiteralCodes /\ Lexed =>
          \A k \in 1..Len(code_blocks) :
              ~(LiteralBegin < code_blocks[k].begin /\ code_blocks[k].begin <= LiteralEnd)

\* the bytes of the stream that are copies of input bytes are in input order
InInputOrder(stream) ==
    \A i \in 1..Len(stream) : \A j \in (i + 1)..Len(stream) :
        stream[i].src /= 0 /\ stream[j].src /= 0 => stream[i].src < stream[j].src

\* C29: in the interface, in the implementation and in the pending buffer, the
\* bytes copied from the input are in the order they have in the input, after
\* every write, flush and relocation
C29_StreamsKeepInputOrder ==
    /\ InInputOrder(header_file)
    /\ InInputOrder(cpp_file)
    /\ InInputOrder(buffer)
    /\ InInputOrder(header_file \o buffer)
    /\ InInputOrder(cpp_file \o buffer)

\* C29 witness: a file with a relocated definition has been written: the
\* buffer was flushed to both streams, the scope prefix was added to the
\* implementation between input bytes, the body went to the implementation and
\* what follows it to the interface
C29_Witness ==
    /\ pc = "done"
    /\ input \in WithPrefix(In_nested)
    /\ Contains(Text(cpp_file), <<"a", ":", ":", "b", ":", ":", "K", ":", ":", "K", "(", ")">>)
    /\ \E p \in Srcs(header_file) : p \in Srcs(cpp_file)
    /\ \E p \in Srcs(header_file) : \E q \in Srcs(cpp_file) :
          p > q /\ p \notin Srcs(cpp_file) /\ q \notin Srcs(header_file)

\* an iteration of the lexer's loop that does not raise an error leaves the
\* cursor at least one byte further, and the loop is left only at the end of
\* the input or by an error
LexerStep ==
    pc = "parse" =>
        \/ pc' = "parse" /\ iterator'.pos > iterator.pos
        \/ pc' = "error" /\ error' /= NoError
        \/ pc' = "parsed" /\ iterator.pos = Len(input) + 1

\* the cursor is within the input or at its terminating NUL
CursorInInput == iterator.pos \in 1..(Len(input) + 1)

\* C30: every iteration of the lexer's loop raises an error or advances the
\* cursor by at least one byte, the directive that moves back 2 bytes included,
\* and the cursor never passes the end of the input: the loop ends after at most
\* one iteration per input byte
C30_LexerAdvances ==
    /\ []CursorInInput
    /\ [][LexerStep]_vars

\* C30 witness: the lexer has reached the end of a file in which a directive
\* moved the cursor back 2 bytes, before a comment that ends on a later line
C30_Witness ==
    /\ pc = "parsed"
    /\ input \in DirectiveCodes
    /\ ~ClosedOnLine
    /\ iterator.pos = Len(input) + 1
    /\ HasBlock("directive")
    /\ HasBlock("comment")

====
